---------------------------- MODULE Spec2Model ----------------------------
(***************************************************************************)
(* Model of CommitsGitSubProvider (the remote commit-log provider): the    *)
(* path-log query cache of getLogForPath, the Log aggregation of getLog,   *)
(* getLogForPathCore and searchCommits, and the "more" continuations.      *)
(***************************************************************************)
EXTENDS Integers, Sequences, FiniteSets, TLC

(***************************************************************************)
(* Bounds of the model.                                                    *)
(***************************************************************************)
\* number of concurrent callers of getLogForPath
MaxCallers == 2
\* number of cache invalidations by the document tracker
MaxInvalidations == 1
\* largest page size a caller asks for
MaxAsk == 3

(***************************************************************************)
(* Absent values (undefined in the source).                                *)
(***************************************************************************)
NoRev == 0
NoLimit == 0
NoCursor == 0
NoFuture == 0
NoError == "none"
NoLog == [isLog |-> FALSE]

Min(a, b) == IF a < b THEN a ELSE b

(***************************************************************************)
(* The paging-limit policy (provider.getPagingLimit): an absent or zero    *)
(* page size is the default page size, a larger one is clamped.            *)
(***************************************************************************)
MaxPageSize == 2
DefaultPageSize == 2

GetPagingLimit(limit) ==
    IF limit = NoLimit THEN DefaultPageSize ELSE Min(limit, MaxPageSize)

(***************************************************************************)
(* The remote: the history of the file, newest first, served in pages      *)
(* addressed by a cursor (the index of the next commit).                   *)
(***************************************************************************)
History == <<3, 2, 1>>
HeadRevision == 3

IndexOf(seq, x) ==
    IF \E i \in 1..Len(seq) : seq[i] = x
    THEN CHOOSE i \in 1..Len(seq) : seq[i] = x /\ \A j \in 1..(i - 1) : seq[j] # x
    ELSE 0

RawCommit(oid, ver) == [oid |-> oid, ver |-> ver]

\* github.getCommits(rev, {after, limit, path}) on History; a revision the
\* remote does not know is answered with an empty page
RemotePage(rev, after, limit) ==
    LET start == IF after # NoCursor THEN after ELSE IndexOf(History, rev)
        stop == Min(start + limit - 1, Len(History))
        more == start # 0 /\ stop < Len(History)
    IN IF start = 0 \/ start > Len(History)
       THEN [values |-> <<>>, more |-> FALSE, cursor |-> NoCursor]
       ELSE [values |-> [i \in 1..(stop - start + 1) |-> RawCommit(History[start + i - 1], 1)],
             more |-> more,
             cursor |-> IF more THEN stop + 1 ELSE NoCursor]

(***************************************************************************)
(* Map<string, GitCommit>: a sequence of commits with distinct sha, in     *)
(* insertion order.                                                        *)
(***************************************************************************)
GitCommit(raw) == [sha |-> raw.oid, ver |-> raw.ver]

MapHas(m, sha) == \E i \in 1..Len(m) : m[i].sha = sha

\* Map.set: a new key is appended, an existing key keeps its position and
\* takes the new value
MapSet(m, c) ==
    IF MapHas(m, c.sha)
    THEN [i \in 1..Len(m) |-> IF m[i].sha = c.sha THEN c ELSE m[i]]
    ELSE Append(m, c)

RECURSIVE MapFromEntries(_, _)
\* new Map(entries): Map.set of every entry in order, starting from acc
MapFromEntries(acc, entries) ==
    IF entries = <<>> THEN acc
    ELSE MapFromEntries(MapSet(acc, Head(entries)), Tail(entries))

RECURSIVE AggregateConcat(_, _)
AggregateConcat(acc, values) ==
    IF values = <<>> THEN acc
    ELSE AggregateConcat(Append(acc, GitCommit(Head(values))), Tail(values))

RECURSIVE AggregateLastWins(_, _)
\* (mutant) a later record of an id replaces the first
AggregateLastWins(acc, values) ==
    IF values = <<>> THEN acc
    ELSE AggregateLastWins(MapSet(acc, GitCommit(Head(values))), Tail(values))

RECURSIVE AggregateCommits(_, _)
\* the aggregation loop: a commit is built and set only when its oid is not
\* in the map yet
AggregateCommits(acc, values) ==
    IF values = <<>> THEN acc
    ELSE AggregateCommits(
            IF MapHas(acc, Head(values).oid) THEN acc
            ELSE MapSet(acc, GitCommit(Head(values))),
            Tail(values))

Shas(m) == [i \in 1..Len(m) |-> m[i].sha]


(***************************************************************************)
(* GitLog values.  more names the continuation the Log carries ("none"     *)
(* when absent), query the operation its query function re-issues.         *)
(***************************************************************************)
\* getLogForPathCore: the Log built from one page of the remote
PathLog(rev, limit, page) ==
    LET commits == AggregateCommits(<<>>, page.values)
    IN [isLog |-> TRUE,
        commits |-> commits,
        sha |-> rev,
        count |-> Len(commits),
        limit |-> limit,
        hasMore |-> page.more,
        endingCursor |-> page.cursor,
        more |-> IF page.more THEN "getLogForPathMoreFn" ELSE "none",
        query |-> "getLogForPath"]

\* rev = !rev || rev === 'HEAD' ? (await metadata.getRevision()).revision : rev
ResolveRevision(rev) == IF rev = NoRev THEN HeadRevision ELSE rev

(***************************************************************************)
(* Partial reconstruction from the cached whole-file log.                  *)
(***************************************************************************)
\* (mutant) the whole-file log is used while it still has more pages
CanReconstructAnyPage(log, rev) ==
    log.isLog /\ MapHas(log.commits, rev)

CanReconstruct(log, rev) ==
    log.isLog /\ ~log.hasMore /\ MapHas(log.commits, rev)

RECURSIVE FilterFromLate(_, _, _, _, _)
\* (mutant) i is compared with the limit before it is incremented
FilterFromLate(entries, rev, limit, skip, i) ==
    IF entries = <<>> THEN <<>>
    ELSE LET e == Head(entries)
         IN IF skip /\ e.sha # rev
            THEN FilterFromLate(Tail(entries), rev, limit, TRUE, i)
            ELSE IF limit # NoLimit /\ i > limit
                 THEN FilterFromLate(Tail(entries), rev, limit, FALSE, i + 1)
                 ELSE <<e>> \o FilterFromLate(Tail(entries), rev, limit, FALSE, i + 1)

RECURSIVE FilterFrom(_, _, _, _, _)
\* the filterMap callback over log.commits.entries(), with its skip and i
FilterFrom(entries, rev, limit, skip, i) ==
    IF entries = <<>> THEN <<>>
    ELSE LET e == Head(entries)
         IN IF skip /\ e.sha # rev
            THEN FilterFrom(Tail(entries), rev, limit, TRUE, i)
            ELSE IF limit # NoLimit /\ i + 1 > limit
                 THEN FilterFrom(Tail(entries), rev, limit, FALSE, i + 1)
                 ELSE <<e>> \o FilterFrom(Tail(entries), rev, limit, FALSE, i + 1)

\* (mutant) the copy takes every commit from the requested one on
ReconstructLogUnlimited(log, rev, limit) ==
    LET commits == MapFromEntries(<<>>, FilterFrom(log.commits, rev, NoLimit, TRUE, 0))
    IN [log EXCEPT !.limit = limit,
                   !.count = Len(commits),
                   !.commits = commits,
                   !.query = "getLogForPath"]

\* (mutant) the copy is given the requested revision for sha, and more to
\* come when the limit cut it
ReconstructLogAsPage(log, rev, limit) ==
    LET from == FilterFrom(log.commits, rev, NoLimit, TRUE, 0)
        commits == MapFromEntries(<<>>, FilterFrom(log.commits, rev, limit, TRUE, 0))
    IN [log EXCEPT !.limit = limit,
                   !.count = Len(commits),
                   !.commits = commits,
                   !.sha = rev,
                   !.hasMore = Len(commits) < Len(from),
                   !.query = "getLogForPath"]

\* log = { ...log, limit: options.limit, count: commits.size, commits:
\* commits, query: ... }
ReconstructLog(log, rev, limit) ==
    LET commits == MapFromEntries(<<>>, FilterFrom(log.commits, rev, limit, TRUE, 0))
    IN [log EXCEPT !.limit = limit,
                   !.count = Len(commits),
                   !.commits = commits,
                   !.query = "getLogForPath"]

(***************************************************************************)
(* Query options and the cache key (the fingerprint).                      *)
(***************************************************************************)
\* target: what the path is on the remote; glob: the path is a folder glob;
\* isFolder: the caller's options.isFolder ("null" when absent); the other
\* fields are 0 when the option is absent
NoOpts ==
    [target |-> "file", glob |-> FALSE, isFolder |-> "null", authors |-> 0,
     cursor |-> NoCursor, filters |-> 0, range |-> 0, since |-> 0, until |-> 0,
     merges |-> 0, ordering |-> 0]

NoKey == <<>>

Token(t, v) == [t |-> t, v |-> v]

\* (mutant) a query with a since date is taken for cacheable
CacheableSince(isFolder, opt) ==
    /\ ~isFolder
    /\ opt.authors = 0
    /\ opt.cursor = NoCursor
    /\ opt.filters = 0
    /\ opt.range = 0
    /\ opt.until = 0

\* useCaching && !isFolder && authors, cursor, filters, range, since and
\* until all absent
Cacheable(isFolder, opt) ==
    /\ ~isFolder
    /\ opt.authors = 0
    /\ opt.cursor = NoCursor
    /\ opt.filters = 0
    /\ opt.range = 0
    /\ opt.since = 0
    /\ opt.until = 0

\* (mutant) the key without the page limit
CacheKeyNoLimit(rev, all, limit, merges, ordering, renames) ==
    <<Token("log", 0)>>
        \o (IF rev # NoRev THEN <<Token("rev", rev)>> ELSE <<>>)
        \o (IF all THEN <<Token("all", 0)>> ELSE <<>>)
        \o (IF merges # 0 THEN <<Token("merges", merges)>> ELSE <<>>)
        \o (IF ordering # 0 THEN <<Token("ordering", ordering)>> ELSE <<>>)
        \o (IF renames THEN <<Token("follow", 0)>> ELSE <<>>)

\* 'log' + ':rev' + ':all' + ':nLIMIT' + ':merges=' + ':ordering=' + ':follow'
CacheKey(rev, all, limit, merges, ordering, renames) ==
    <<Token("log", 0)>>
        \o (IF rev # NoRev THEN <<Token("rev", rev)>> ELSE <<>>)
        \o (IF all THEN <<Token("all", 0)>> ELSE <<>>)
        \o (IF limit # NoLimit THEN <<Token("n", limit)>> ELSE <<>>)
        \o (IF merges # 0 THEN <<Token("merges", merges)>> ELSE <<>>)
        \o (IF ordering # 0 THEN <<Token("ordering", ordering)>> ELSE <<>>)
        \o (IF renames THEN <<Token("follow", 0)>> ELSE <<>>)

\* `log${options.renames ? ':follow' : ''}`
WholeFileKey(renames) ==
    <<Token("log", 0)>> \o (IF renames THEN <<Token("follow", 0)>> ELSE <<>>)


(***************************************************************************)
(* State.                                                                  *)
(*  calls    getLogForPath invocations, one per caller, with their locals  *)
(*  futures  the promises: emptyPromise, a prior whole-file entry, and     *)
(*           the promise of every getLogForPathCore(...).catch(...)        *)
(*  docState the tracked document's state: its log cache, or null          *)
(*  epoch    the number of invalidations so far                            *)
(*  lg       the Log a consumer of getLog, getLogForPath or searchCommits   *)
(*           holds (NoLog when it holds none)                              *)
(*  lastOp   the operation that produced lg, with its inputs               *)
(*  sent     the requests sent to the remote on behalf of the consumer     *)
(***************************************************************************)
VARIABLES calls, futures, docState, epoch, lg, lastOp, sent, objs, ret, node

cacheVars == <<calls, futures, docState, epoch>>

logVars == <<lg, lastOp, sent, objs, ret>>

vars == <<calls, futures, docState, epoch, lg, lastOp, sent, objs, ret, node>>

Callers == 1..MaxCallers

EmptyPromise == 1

NoLogs == [k \in {} |-> 0]

DocNull == [present |-> FALSE, logs |-> NoLogs]

CachedLog(item, errorMessage) == [item |-> item, errorMessage |-> errorMessage]

\* doc.state.getLog(key) != null
HasLog(key) == docState.present /\ key \in DOMAIN docState.logs

\* doc.state.setLog(key, value), on the state as it is or on a new one
SetLog(key, value) ==
    [present |-> TRUE,
     logs |-> (key :> value) @@ (IF docState.present THEN docState.logs ELSE NoLogs)]

\* no request recorded
NoRequest == [api |-> "none"]

ResolvedFuture(val) ==
    [st |-> "done", val |-> val, key |-> NoKey, rev |-> NoRev, limit |-> NoLimit,
     opt |-> NoOpts, called |-> FALSE, failed |-> FALSE, epoch |-> 0,
     req |-> NoRequest]

IdleCall ==
    [pc |-> "idle", rev |-> NoRev, limit |-> NoLimit, opt |-> NoOpts, key |-> NoKey,
     whole |-> NoFuture, ret |-> NoFuture, out |-> NoLog, how |-> "none",
     mine |-> NoFuture, epoch |-> 0, conc |-> {}]

\* the promise a call returned has settled
Settled(p) ==
    /\ calls[p].pc = "done"
    /\ calls[p].ret # NoFuture => futures[calls[p].ret].st = "done"

Active(p) == calls[p].pc \in {"tree", "doc", "whole"}

(***************************************************************************)
(* Prior cache content: no state, an empty state, or a whole-file entry    *)
(* that resolved to nothing or to a Log built from a page of the file.     *)
(***************************************************************************)
WholeFilePages ==
    {[values |-> [i \in 1..n |-> RawCommit(History[i], 1)], more |-> m, cursor |-> c] :
        <<n, m, c>> \in {<<3, FALSE, NoCursor>>, <<2, TRUE, 3>>, <<2, FALSE, NoCursor>>,
                          <<1, FALSE, NoCursor>>}}

WholeFileLogs == {PathLog(HeadRevision, NoLimit, pg) : pg \in WholeFilePages} \cup {NoLog}

\* no operation yet
NoOperation ==
    [op |-> "none", kind |-> "none", rev |-> NoRev, ask |-> NoLimit, until |-> 0,
     outcome |-> "none", prior |-> NoLog, page |-> <<>>, again |-> FALSE,
     target |-> "none"]

\* the objects a continuation works on, as they are now: the Log it was
\* invoked on and the Log of the page it fetched
\* same: the result is the object the continuation was invoked on
NoObjects == [prior |-> NoLog, page |-> NoLog, same |-> FALSE]

\* how the last operation ended for its caller: it returned val, or it
\* raised an error
NotCalled == [how |-> "none", val |-> "none"]

Returned(val) == [how |-> "returned", val |-> val]

Raised == [how |-> "raised", val |-> "error"]

ReturnedLog(log) == Returned(IF log.isLog THEN "log" ELSE "undefined")

\* the consumer of the Logs has not started
LogIdle ==
    /\ lg = NoLog
    /\ lastOp = NoOperation
    /\ sent = <<>>
    /\ objs = NoObjects
    /\ ret = NotCalled

\* no call of the node in flight; n: the page size asked of the engine
IdleProc ==
    [pc |-> "idle", gen |-> 0, log |-> NoLog, logId |-> 0, logGen |-> 0,
     n |-> NoLimit, until |-> 0]

\* the ContributorNode as constructed: no log, no known limit; kind: the
\* operation its option pathspec selects, once it has queried; logId: the
\* identity of the Log object held (0: none), logGen: the number of resets
\* before the query it comes from; changes: the change notifications
\* triggered; get and load: the calls of getChildren and loadMore in flight;
\* did: how the last loadMore ended
IdleNode ==
    [kind |-> "none", log |-> NoLog, logId |-> 0, logGen |-> 0, limit |-> NoLimit,
     changes |-> 0, resets |-> 0, nextId |-> 1, get |-> IdleProc, load |-> IdleProc,
     did |-> "none"]

Init ==
    /\ LogIdle
    /\ node = IdleNode
    /\ calls = [p \in Callers |-> IdleCall]
    /\ epoch = 0
    /\ \/ /\ futures = <<ResolvedFuture(NoLog)>>
          /\ docState \in {DocNull, [present |-> TRUE, logs |-> NoLogs]}
       \/ \E log \in WholeFileLogs :
             /\ futures = <<ResolvedFuture(NoLog), ResolvedFuture(log)>>
             /\ docState = [present |-> TRUE,
                            logs |-> (WholeFileKey(FALSE) :> CachedLog(2, NoError))]

(***************************************************************************)
(* getLogForPath.                                                          *)
(***************************************************************************)
\* the queries the callers issue: cacheable ones over the revisions and the
\* page sizes, and one for each option that makes a query uncacheable
Asks == {1, MaxAsk}

QueryRevs == {NoRev, 2}

Bypasses ==
    {[NoOpts EXCEPT !.target = "folder", !.glob = TRUE],
     [NoOpts EXCEPT !.target = "folder", !.isFolder = "true"],
     [NoOpts EXCEPT !.target = "folder"],
     [NoOpts EXCEPT !.authors = 1],
     [NoOpts EXCEPT !.cursor = 2],
     [NoOpts EXCEPT !.filters = 1],
     [NoOpts EXCEPT !.range = 1],
     [NoOpts EXCEPT !.since = 1],
     [NoOpts EXCEPT !.until = 1]}

CacheableQueries == {[rev |-> r, ask |-> a, opt |-> NoOpts] : r \in QueryRevs, a \in Asks}

BypassQueries == {[rev |-> 2, ask |-> NoLimit, opt |-> o] : o \in Bypasses}

\* the cacheable query with the revision and page size of the uncacheable ones
PlainQuery == [rev |-> 2, ask |-> NoLimit, opt |-> NoOpts]

\* the first caller issues the uncacheable queries or the plain one, the
\* others the plain one
Queries(p) == IF p = 1 THEN BypassQueries \cup {PlainQuery} ELSE {PlainQuery}

\* the queries issued while the document tracker invalidates the cache
TrackerQueries == {[rev |-> 2, ask |-> 1, opt |-> NoOpts]}

\* const promise = this.getLogForPathCore(...).catch(...): the fetch starts
\* by resolving the repository context
NewFetch(c) ==
    [st |-> "ctx", val |-> NoLog, key |-> c.key, rev |-> c.rev, limit |-> c.limit,
     opt |-> c.opt, called |-> FALSE, failed |-> FALSE, epoch |-> epoch,
     req |-> NoRequest]

\* the cache miss path: doc.state ??= new GitDocumentState(), the fetch is
\* started, its pending promise is stored under the key and returned
\* (cs: the calls as the step leaves the other callers)
BeginFetch(p, c, cs) ==
    LET f == Len(futures) + 1
    IN /\ futures' = Append(futures, NewFetch(c))
       /\ docState' = IF c.key # NoKey THEN SetLog(c.key, CachedLog(f, NoError))
                      ELSE docState
       /\ calls' = [cs EXCEPT ![p] =
                        [c EXCEPT !.pc = "done", !.ret = f, !.mine = f, !.how = "fetch"]]

\* from the point where options.isFolder is known: the cache key is built
\* and the tracked document awaited, or the cache is bypassed
KeyStage(p, c, cs, isFolder) ==
    IF Cacheable(isFolder, c.opt)
    THEN /\ calls' = [cs EXCEPT ![p] =
                [c EXCEPT !.pc = "doc",
                          !.key = CacheKey(c.rev, FALSE, c.limit, c.opt.merges,
                                           c.opt.ordering, FALSE)]]
         /\ UNCHANGED <<futures, docState>>
    ELSE BeginFetch(p, c, cs)

\* a caller invokes getLogForPath(repoPath, path, q.rev, {limit: q.ask, ...}):
\* the options are normalised; a folder glob or a given options.isFolder
\* settles isFolder, otherwise the tree entry of the path is awaited
Start(p, q) ==
    /\ calls[p].pc = "idle"
    /\ LET c == [IdleCall EXCEPT !.rev = q.rev,
                                 !.limit = GetPagingLimit(q.ask),
                                 !.opt = q.opt,
                                 !.epoch = epoch,
                                 !.conc = {r \in Callers \ {p} :
                                             calls[r].pc # "idle" /\ ~Settled(r)}]
           others == calls
       IN IF q.opt.glob
          THEN KeyStage(p, c, others, TRUE)
          ELSE IF q.opt.isFolder # "null"
               THEN KeyStage(p, c, others, q.opt.isFolder = "true")
               ELSE /\ calls' = [others EXCEPT ![p] = [c EXCEPT !.pc = "tree"]]
                    /\ UNCHANGED <<futures, docState>>
    /\ UNCHANGED <<epoch, logVars, node>>

\* await getTreeEntryForRevision(...): options.isFolder = tree?.type === 'tree'
TreeReady(p) ==
    /\ calls[p].pc = "tree"
    /\ KeyStage(p, calls[p], calls, calls[p].opt.target = "folder")
    /\ UNCHANGED <<epoch, logVars, node>>

\* await documentTracker.getOrAdd(...) has answered: the exact key, then the
\* whole-file key, are looked up; on a miss the fetch begins
DocReady(p) ==
    LET c == calls[p]
        whole == WholeFileKey(FALSE)
    IN /\ c.pc = "doc"
       /\ IF HasLog(c.key)
          THEN /\ calls' = [calls EXCEPT ![p] =
                      [c EXCEPT !.pc = "done", !.how = "hit",
                                !.ret = docState.logs[c.key].item]]
               /\ UNCHANGED <<futures, docState>>
          ELSE IF docState.present /\ (c.rev # NoRev \/ c.limit # NoLimit)
                    /\ HasLog(whole)
               THEN IF c.rev = NoRev
                    THEN /\ calls' = [calls EXCEPT ![p] =
                                [c EXCEPT !.pc = "done", !.how = "whole",
                                          !.ret = docState.logs[whole].item]]
                         /\ UNCHANGED <<futures, docState>>
                    ELSE /\ calls' = [calls EXCEPT ![p] =
                                [c EXCEPT !.pc = "whole",
                                          !.whole = docState.logs[whole].item]]
                         /\ UNCHANGED <<futures, docState>>
               ELSE BeginFetch(p, c, calls)
       /\ UNCHANGED <<epoch, logVars, node>>

\* (mutant) the whole-file entry is stored under the requested key too
RebuiltCacheStored(key) ==
    IF HasLog(WholeFileKey(FALSE))
    THEN SetLog(key, docState.logs[WholeFileKey(FALSE)])
    ELSE docState

\* the cache after a reconstruction: the copy is returned, nothing is set
RebuiltCache(key) == docState

\* let log = await cachedLog.item has answered: the request is rebuilt from
\* the whole-file log, or the fetch begins
WholeReady(p) ==
    LET c == calls[p]
    IN /\ c.pc = "whole"
       /\ futures[c.whole].st = "done"
       /\ LET log == futures[c.whole].val
          IN IF CanReconstruct(log, c.rev)
             THEN /\ calls' = [calls EXCEPT ![p] =
                         [c EXCEPT !.pc = "done", !.how = "rebuilt",
                                   !.out = ReconstructLog(log, c.rev, c.limit)]]
                  /\ docState' = RebuiltCache(c.key)
                  /\ UNCHANGED futures
             ELSE BeginFetch(p, c, calls)
       /\ UNCHANGED <<epoch, logVars, node>>

(***************************************************************************)
(* getLogForPathCore and the catch handler of its promise.                 *)
(***************************************************************************)
Fetches == {f \in 1..Len(futures) : futures[f].st # "done"}

\* github.getCommits(token, owner, name, rev, { all, after, path, limit,
\* since }) as getLogForPathCore calls it (all is false after the
\* normalisation)
PathRequest(ft) ==
    [api |-> "getCommits",
     rev |-> ResolveRevision(ft.rev),
     all |-> FALSE,
     after |-> ft.opt.cursor,
     path |-> TRUE,
     limit |-> ft.limit,
     since |-> ft.opt.since]

\* ensureRepositoryContext and metadata.getRevision have answered:
\* github.getCommits is invoked
FetchRequest(f) ==
    /\ f \in Fetches
    /\ futures[f].st = "ctx"
    /\ futures' = [futures EXCEPT ![f].st = "remote", ![f].called = TRUE,
                                  ![f].rev = ResolveRevision(@),
                                  ![f].req = PathRequest(futures[f])]
    /\ UNCHANGED <<calls, docState, epoch, logVars, node>>

\* github.getCommits has answered: the Log is built, the promise resolves
FetchReturn(f) ==
    /\ f \in Fetches
    /\ futures[f].st = "remote"
    /\ LET ft == futures[f]
           page == RemotePage(ft.rev, ft.opt.cursor, ft.limit)
       IN futures' = [futures EXCEPT ![f].st = "done",
                                     ![f].val = PathLog(ft.rev, ft.limit, page)]
    /\ UNCHANGED <<calls, docState, epoch, logVars, node>>

\* (mutant) the failure removes the key from the cache
CatchCacheEvict(key) ==
    IF key # NoKey /\ docState.present
    THEN [docState EXCEPT !.logs = [k \in DOMAIN docState.logs \ {key} |-> docState.logs[k]]]
    ELSE docState

\* (mutant) the failure is not recorded
CatchCacheSkip(key) == docState

\* the catch handler's result: with a cache key and a document state, the
\* key is set to the empty promise and the failure's message
CatchCache(key) ==
    IF key # NoKey /\ docState.present
    THEN SetLog(key, CachedLog(EmptyPromise, "error"))
    ELSE docState

\* a collaborator call of getLogForPathCore has thrown: the catch handler
\* runs and the promise resolves to undefined
FetchFail(f) ==
    /\ f \in Fetches
    /\ futures' = [futures EXCEPT ![f].st = "done", ![f].val = NoLog,
                                  ![f].failed = TRUE]
    /\ docState' = CatchCache(futures[f].key)
    /\ UNCHANGED <<calls, epoch, logVars, node>>

(***************************************************************************)
(* The document tracker resets the document's state.                       *)
(***************************************************************************)
Invalidate ==
    /\ docState.present
    /\ epoch < MaxInvalidations
    /\ docState' = DocNull
    /\ epoch' = epoch + 1
    /\ UNCHANGED <<calls, futures, logVars, node>>

\* the fetches: getLogForPathCore's steps and the catch handler
Fetch ==
    \/ \E f \in 1..Len(futures) : FetchRequest(f)
    \/ \E f \in 1..Len(futures) : FetchReturn(f)
    \/ \E f \in 1..Len(futures) : FetchFail(f)

\* the steps of a call after its start
Resume ==
    \/ \E p \in Callers : TreeReady(p)
    \/ \E p \in Callers : DocReady(p)
    \/ \E p \in Callers : WholeReady(p)

\* concurrent callers issuing cacheable queries for one file
Next ==
    \/ \E p \in Callers : \E q \in CacheableQueries : Start(p, q)
    \/ Resume
    \/ Fetch

Spec == Init /\ [][Next]_vars

\* the same, with the document tracker invalidating the cache
NextTracker ==
    \/ \E p \in Callers : \E q \in TrackerQueries : Start(p, q)
    \/ Resume
    \/ Fetch
    \/ Invalidate

SpecTracker == Init /\ [][NextTracker]_vars

\* the first caller issuing the uncacheable queries
NextBypass ==
    \/ \E p \in Callers : \E q \in Queries(p) : Start(p, q)
    \/ Resume
    \/ Fetch

SpecBypass == Init /\ [][NextBypass]_vars

(***************************************************************************)
(* Properties of the query cache.                                          *)
(***************************************************************************)
\* both calls were issued before either one's promise settled
Concurrent(p, q) == q \in calls[p].conc \/ p \in calls[q].conc

\* the fetches started by the two calls for which getCommits was invoked
RemoteCallsOf(p, q) ==
    {f \in {calls[p].mine, calls[q].mine} \ {NoFuture} : futures[f].called}

\* C1: single-flight: for two getLogForPath calls with the same cacheable
\* fingerprint, both issued before either settles, getCommits is invoked
\* once ("exactly once" is stated here by what it forbids: a second
\* invocation on behalf of the pair)
C1_SingleFlight ==
    \A p \in Callers : \A q \in Callers \ {p} :
        (Concurrent(p, q) /\ calls[p].key # NoKey /\ calls[p].key = calls[q].key)
            => Cardinality(RemoteCallsOf(p, q)) <= 1

\* C2: while a fetch started by a cacheable getLogForPath is in flight, the
\* cache holds an entry for its fingerprint and that entry is the fetch's
\* pending future (what a caller arriving with the fingerprint receives)
C2_PendingFutureCached ==
    \A f \in 1..Len(futures) :
        (futures[f].st # "done" /\ futures[f].key # NoKey)
            => /\ docState.present
               /\ futures[f].key \in DOMAIN docState.logs
               /\ docState.logs[futures[f].key].item = f

\* C3: an entry stored under a fingerprint stays in the cache until the
\* document tracker invalidates it (the engine never removes one), and
\* every getLogForPath that finds an entry under its fingerprint returns
\* the stored future and starts no fetch
C3_StoredEntryServes ==
    [][/\ epoch' = epoch =>
            \A k \in DOMAIN docState.logs :
                docState.present => (docState'.present /\ k \in DOMAIN docState'.logs)
       /\ \A p \in Callers :
            (/\ calls[p].pc = "doc"
             /\ calls'[p].pc # "doc"
             /\ docState.present
             /\ calls[p].key \in DOMAIN docState.logs)
                => /\ calls'[p].pc = "done"
                   /\ calls'[p].ret = docState.logs[calls[p].key].item
                   /\ calls'[p].mine = NoFuture
                   /\ futures' = futures
                   /\ docState' = docState]_vars

\* a call was served from the entry another call's fetch stored
C3_Witness ==
    \E p \in Callers : \E q \in Callers \ {p} :
        /\ calls[p].pc = "done"
        /\ calls[p].mine = NoFuture
        /\ calls[q].mine # NoFuture
        /\ calls[p].ret = calls[q].mine

\* the commits of the whole-file log a call awaited
WholeCommits(p) == futures[calls[p].whole].val.commits

\* C4: partial reconstruction: from a cached whole-file log L with
\* hasMore = false holding revision r at position i, a request (r, limit n)
\* with no exact entry returns L's commits i..min(i+n,|L|)-1 (positions from
\* 0; here i..min(i+n-1,|L|) from 1) in L's order, count that number,
\* limit n, and no fetch is started
C4_PartialReconstruction ==
    \A p \in Callers :
        calls[p].how = "rebuilt"
            => LET L == WholeCommits(p)
                   i == IndexOf(Shas(L), calls[p].rev)
                   n == calls[p].limit
                   last == Min(i + n - 1, Len(L))
               IN /\ i >= 1
                  /\ calls[p].out.isLog
                  /\ calls[p].out.commits = SubSeq(L, i, last)
                  /\ calls[p].out.count = last - i + 1
                  /\ calls[p].out.limit = n
                  /\ calls[p].mine = NoFuture
                  /\ calls[p].ret = NoFuture

\* a request was rebuilt from the middle of the whole-file log
C4_Witness ==
    \E p \in Callers :
        /\ calls[p].how = "rebuilt"
        /\ IndexOf(Shas(WholeCommits(p)), calls[p].rev) = 2
        /\ Len(calls[p].out.commits) = 2

\* the Log a call answered from the whole-file entry returns
\* (a sequence: empty when the call has no such answer yet)
AnsweredFromWhole(p) ==
    IF calls[p].how = "rebuilt" THEN <<calls[p].out>>
    ELSE IF calls[p].how = "whole" /\ futures[calls[p].ret].val.isLog
         THEN <<futures[calls[p].ret].val>>
         ELSE <<>>

\* C5 as claimed: every answer taken from the cached whole-file log, for a
\* revision-scoped or a limit-only request with page limit n, holds at most
\* n commits
C5_AtMostLimit ==
    \A p \in Callers :
        \A log \in {AnsweredFromWhole(p)[j] : j \in 1..Len(AnsweredFromWhole(p))} :
            Len(log.commits) <= calls[p].limit

\* C5 amended: a revision-scoped request rebuilt from the cached whole-file
\* log holds at most n commits; a limit-only request with no revision gets
\* the whole-file entry's own future, whatever the length of its log
C5_AtMostLimitWhenRebuilt ==
    \A p \in Callers :
        /\ calls[p].how = "rebuilt"
              => /\ Len(calls[p].out.commits) <= calls[p].limit
                 /\ calls[p].out.count <= calls[p].limit
        /\ calls[p].how = "whole"
              => /\ calls[p].rev = NoRev
                 /\ docState.present
                 /\ WholeFileKey(FALSE) \in DOMAIN docState.logs
                 /\ calls[p].ret = docState.logs[WholeFileKey(FALSE)].item

\* a rebuilt answer was cut by the limit: commits follow it in the
\* whole-file log
C5_Witness ==
    \E p \in Callers :
        /\ calls[p].how = "rebuilt"
        /\ Len(calls[p].out.commits) = calls[p].limit
        /\ Len(WholeCommits(p)) >
              IndexOf(Shas(WholeCommits(p)), calls[p].rev) + calls[p].limit - 1

\* C6: a revision-scoped request with no exact entry is rebuilt from the
\* whole-file entry only when that log has hasMore = false and holds the
\* revision; otherwise (more pages, revision absent, resolved to nothing, no
\* whole-file entry) a fetch is started and its pending future stored under
\* the exact fingerprint
C6_ReconstructOnlyWhenComplete ==
    [][\A p \in Callers :
        (/\ calls[p].pc \in {"doc", "whole"}
         /\ calls'[p].pc = "done"
         /\ calls[p].rev # NoRev
         /\ ~(docState.present /\ calls[p].key \in DOMAIN docState.logs
                /\ calls[p].pc = "doc"))
            => LET complete ==
                     /\ calls[p].pc = "whole"
                     /\ futures[calls[p].whole].val.isLog
                     /\ ~futures[calls[p].whole].val.hasMore
                     /\ \E j \in 1..Len(WholeCommits(p)) :
                           WholeCommits(p)[j].sha = calls[p].rev
                   f == Len(futures) + 1
               IN IF complete
                  THEN /\ calls'[p].how = "rebuilt"
                       /\ futures' = futures
                       /\ docState' = docState
                  ELSE /\ calls'[p].how = "fetch"
                       /\ Len(futures') = f
                       /\ futures'[f].st # "done"
                       /\ calls'[p].ret = f
                       /\ docState'.present
                       /\ calls[p].key \in DOMAIN docState'.logs
                       /\ docState'.logs[calls[p].key].item = f]_vars

\* a request skipped the whole-file log because it still had more pages
C6_Witness ==
    \E p \in Callers :
        /\ calls[p].how = "fetch"
        /\ calls[p].whole # NoFuture
        /\ futures[calls[p].whole].val.isLog
        /\ futures[calls[p].whole].val.hasMore

\* C7: negative cache: when the fetch of a cacheable getLogForPath fails
\* (no invalidation since it began), its key is set to the resolved empty
\* promise with the failure's message and the fetch's promise resolves to
\* the empty result; a call that then finds that entry returns the empty
\* promise and starts no fetch
C7_NegativeCache ==
    [][/\ \A f \in 1..Len(futures) :
            (/\ futures[f].st # "done"
             /\ futures'[f].st = "done"
             /\ futures'[f].failed
             /\ futures[f].key # NoKey
             /\ futures[f].epoch = epoch)
                => /\ docState'.present
                   /\ futures[f].key \in DOMAIN docState'.logs
                   /\ docState'.logs[futures[f].key].item = EmptyPromise
                   /\ docState'.logs[futures[f].key].errorMessage # NoError
                   /\ futures'[f].val = NoLog
       /\ \A p \in Callers :
            (/\ calls[p].pc = "doc"
             /\ calls'[p].pc # "doc"
             /\ docState.present
             /\ calls[p].key \in DOMAIN docState.logs
             /\ docState.logs[calls[p].key].errorMessage # NoError)
                => /\ calls'[p].ret = EmptyPromise
                   /\ futures[EmptyPromise].st = "done"
                   /\ futures[EmptyPromise].val = NoLog
                   /\ calls'[p].mine = NoFuture
                   /\ futures' = futures]_vars

\* a call replayed the empty result of another call's failed fetch
C7_Witness ==
    \E p \in Callers : \E q \in Callers \ {p} :
        /\ calls[p].how = "hit"
        /\ calls[p].ret = EmptyPromise
        /\ calls[q].mine # NoFuture
        /\ futures[calls[q].mine].failed
        /\ calls[q].key = calls[p].key

\* the query targets a folder or carries one of the uncacheable options
Uncacheable(opt) ==
    \/ opt.target = "folder"
    \/ opt.authors # 0
    \/ opt.cursor # NoCursor
    \/ opt.filters # 0
    \/ opt.range # 0
    \/ opt.since # 0
    \/ opt.until # 0

\* C9: an uncacheable getLogForPath bypasses the cache: no step of the call
\* or of its fetch changes the cache, the call always starts a fetch of its
\* own whatever the cache holds, and when the fetch fails its promise
\* resolves to undefined
C9_BypassLeavesCache ==
    [][/\ \A p \in Callers :
            (calls'[p] # calls[p] /\ Uncacheable(calls'[p].opt))
                => /\ docState' = docState
                   /\ calls'[p].key = NoKey
                   /\ calls'[p].pc = "done"
                         => /\ calls'[p].how = "fetch"
                            /\ calls'[p].ret = Len(futures) + 1
                            /\ Len(futures') = Len(futures) + 1
                            /\ futures'[Len(futures) + 1].st # "done"
       /\ \A f \in 1..Len(futures) :
            (futures'[f] # futures[f] /\ Uncacheable(futures[f].opt))
                => /\ docState' = docState
                   /\ futures'[f].failed => futures'[f].val = NoLog]_vars

\* the fetch of an uncacheable query failed while the cache held entries
C9_Witness ==
    \E p \in Callers :
        /\ Uncacheable(calls[p].opt)
        /\ calls[p].pc = "done"
        /\ futures[calls[p].ret].failed
        /\ docState.present
        /\ DOMAIN docState.logs # {}

(***************************************************************************)
(* getLog, searchCommits, getLogForPath for a folder, and their "more"     *)
(* continuations, as a consumer of the Logs uses them: one operation at a  *)
(* time, against a remote that answers any page.                           *)
(***************************************************************************)
\* number of requests sent to the remote
MaxRequests == 2

\* getLog: the Log built from one page of the remote
RevisionLog(rev, limit, page) ==
    LET commits == AggregateCommits(<<>>, page.values)
    IN [isLog |-> TRUE,
        commits |-> commits,
        sha |-> rev,
        count |-> Len(commits),
        limit |-> limit,
        hasMore |-> page.more,
        endingCursor |-> page.cursor,
        more |-> IF page.more THEN "getLogMoreFn" ELSE "none",
        query |-> "getLog"]

\* searchCommits: the Log built from one page of results
SearchLog(limit, page) ==
    LET commits == AggregateCommits(<<>>, page.values)
    IN [isLog |-> TRUE,
        commits |-> commits,
        sha |-> NoRev,
        count |-> Len(commits),
        limit |-> limit,
        hasMore |-> page.more,
        endingCursor |-> page.cursor,
        more |-> IF page.more THEN "searchCommitsCore" ELSE "none",
        query |-> "getLog"]

\* searchCommits for a 'commit:' operation: the Log of the one commit
CommitLog(raw) ==
    [isLog |-> TRUE,
     commits |-> MapFromEntries(<<>>, <<GitCommit(raw)>>),
     sha |-> raw.oid,
     count |-> 1,
     limit |-> 1,
     hasMore |-> FALSE]

\* the pages the remote answers: the oids of a page, and its paging data
\* (absent, or more/cursor)
PageShas == {<<>>, <<1>>, <<1, 1>>, <<1, 2>>, <<2, 3>>}

\* the k-th request's page with the given oids: every raw record differs
RawPage(shas, k) == [j \in 1..Len(shas) |-> RawCommit(shas[j], 10 * k + j)]

Pages(k) ==
    {[values |-> RawPage(shas, k), more |-> pg[1], cursor |-> pg[2]] :
        shas \in PageShas, pg \in {<<FALSE, NoCursor>>, <<TRUE, k>>}}

NoPage == [values |-> <<>>, more |-> FALSE, cursor |-> NoCursor]

\* what the collaborators answer to an operation's calls: the repository
\* context cannot be resolved, the remote call throws, the search has no
\* query arguments or the remote answers nothing (searchCommits), or the
\* remote answers a page
Outcomes(kind, k) ==
    {[res |-> r, page |-> NoPage] :
        r \in {"context", "throw"}
                \cup (IF kind = "searchCommits" THEN {"noquery", "null"} ELSE {})}
        \cup {[res |-> "page", page |-> pg] : pg \in Pages(k)}

\* the request getLog, getLogForPathCore or searchCommits sends
Request(kind, rev, cursor, limit) ==
    [api |-> IF kind = "searchCommits" THEN "searchCommits" ELSE "getCommits",
     rev |-> IF kind = "searchCommits" THEN NoRev ELSE ResolveRevision(rev),
     after |-> cursor,
     limit |-> limit,
     path |-> kind = "getLogForPath"]

\* (mutant) a failed getLog is remembered and not sent again
RequestsSentOnce(kind, rev, cursor, limit, o) ==
    IF o.res \in {"context", "noquery"}
          \/ (lastOp.op = "query" /\ lastOp.kind = kind /\ lastOp.rev = rev
                /\ lastOp.outcome \in {"context", "throw"})
    THEN <<>> ELSE <<Request(kind, rev, cursor, GetPagingLimit(limit))>>

\* the requests an operation sends: none when the repository context
\* cannot be resolved or the search has no query arguments, else one
RequestsSent(kind, rev, cursor, limit, o) ==
    IF o.res \in {"context", "noquery"} THEN <<>>
    ELSE <<Request(kind, rev, cursor, GetPagingLimit(limit))>>

\* getLog, getLogForPath (for a folder: the cache is bypassed, the catch
\* handler answers undefined) and searchCommits: the Log of the page, or
\* undefined when a collaborator fails
FetchLog(kind, rev, limit, o) ==
    IF o.res # "page" THEN NoLog
    ELSE CASE kind = "getLog" ->
                RevisionLog(ResolveRevision(rev), GetPagingLimit(limit), o.page)
           [] kind = "getLogForPath" ->
                PathLog(ResolveRevision(rev), GetPagingLimit(limit), o.page)
           [] kind = "searchCommits" ->
                SearchLog(GetPagingLimit(limit), o.page)

\* the operation a continuation calls
KindOfMore(more) ==
    CASE more = "getLogMoreFn" -> "getLog"
      [] more = "getLogForPathMoreFn" -> "getLogForPath"
      [] more = "searchCommitsCore" -> "searchCommits"
      [] OTHER -> "none"

\* log.more, "none" when the Log carries no continuation
MoreOf(log) == IF log.isLog /\ "more" \in DOMAIN log THEN log.more ELSE "none"

\* last(log.commits)?.[0]
LastSha(commits) == IF commits = <<>> THEN NoRev ELSE commits[Len(commits)].sha

\* (mutant) the new page's commits come first
MergeCommitsPageFirst(commits, moreCommits) == MapFromEntries(moreCommits, commits)

\* (mutant) an id the Log holds keeps the Log's record
MergeCommitsKeepRecord(commits, moreCommits) ==
    commits \o SelectSeq(moreCommits, LAMBDA c : ~MapHas(commits, c.sha))

\* (mutant) the merged Log holds the new page only
MergeCommitsPageOnly(commits, moreCommits) == moreCommits

\* new Map([...log.commits, ...moreLog.commits])
MergeCommits(commits, moreCommits) == MapFromEntries(commits, moreCommits)

\* (mutant) the merged Log carries no continuation
AttachNoMore(hasMore, fn) == "none"

\* if (mergedLog.hasMore) mergedLog.more = ...: the continuation of the
\* merged Log, "none" when absent
AttachMore(hasMore, fn) == IF hasMore THEN fn ELSE "none"

\* (mutant) the limit is the size of the last page requested
MergedLimitLastPage(log, until, moreLimit) ==
    IF until = 0 \/ log.more = "searchCommitsCore" THEN moreLimit ELSE NoLimit

\* moreUntil == null ? (log.limit ?? 0) + moreLimit : undefined; the search
\* continuation takes no until boundary
MergedLimit(log, until, moreLimit) ==
    IF until = 0 \/ log.more = "searchCommitsCore"
    THEN log.limit + moreLimit ELSE NoLimit

\* (mutant) the merged Log keeps the cursor of the Log it continues
MergedCursorKept(log, moreLog) == log.endingCursor

\* endingCursor: moreLog.endingCursor
MergedCursor(log, moreLog) == moreLog.endingCursor

\* the merged Log of a continuation (until = 0: no until boundary)
MergedLog(log, moreLog, until, moreLimit) ==
    LET commits == MergeCommits(log.commits, moreLog.commits)
        hasMore == IF until = 0 \/ log.more = "searchCommitsCore"
                   THEN moreLog.hasMore ELSE TRUE
        merged == [isLog |-> TRUE,
                   commits |-> commits,
                   sha |-> log.sha,
                   count |-> Len(commits),
                   limit |-> MergedLimit(log, until, moreLimit),
                   hasMore |-> hasMore,
                   endingCursor |-> MergedCursor(log, moreLog),
                   more |-> AttachMore(hasMore, log.more),
                   query |-> log.query]
    IN IF log.more = "getLogMoreFn"
       THEN [f \in DOMAIN merged \cup {"startingCursor"} |->
                IF f = "startingCursor" THEN LastSha(log.commits) ELSE merged[f]]
       ELSE merged

\* (mutant) the continuation stays on the Log
ExhaustedLogWithMore(log) == [log EXCEPT !.hasMore = FALSE]

\* (mutant) the commits held are dropped
ExhaustedLogEmptied(log) ==
    [log EXCEPT !.hasMore = FALSE, !.more = "none", !.commits = <<>>, !.count = 0]

\* { ...log, hasMore: false, more: undefined }
ExhaustedLog(log) == [log EXCEPT !.hasMore = FALSE, !.more = "none"]

\* (mutant) the boundary is never taken for reached
UntilNeverSatisfied(log, until) == FALSE

\* moreUntil && some(log.commits.values(), c => c.ref === moreUntil)
UntilSatisfied(log, until) == until # 0 /\ MapHas(log.commits, until)

\* the page size the continuation asks the operation for: the path
\* continuation passes 0 with an until boundary
MoreAsk(log, n, until) ==
    IF log.more = "getLogForPathMoreFn" /\ until # 0 THEN NoLimit
    ELSE GetPagingLimit(n)

\* the continuation's call of getLogForPath goes through the cache: the
\* path is a file and the Log it continues has no cursor
MoreThroughCache(log, target) ==
    /\ log.more = "getLogForPathMoreFn"
    /\ Cacheable(target # "file", [NoOpts EXCEPT !.cursor = log.endingCursor])

\* (mutant) the continuation holds no rev: the operation it calls resolves
\* the head again
MoreRevUnresolved(log) == NoRev

\* the rev a continuation holds: getLogMoreFn(log, rev, options) and
\* getLogForPathMoreFn(log, path, rev, options) are given the rev their
\* Log's sha was set from, and pass it on to the merged Log's continuation
MoreRev(log) == log.sha

\* the call of getLog, getLogForPath or searchCommits a continuation makes
\* for its page, the collaborators answering o, run to its end: the Log it
\* gives (moreLog), the requests it sends, the cache it leaves, and how it
\* was answered.
MoreCall(log, target, n, until, o) ==
    LET ask == MoreAsk(log, n, until)
        limit == GetPagingLimit(ask)
        kind == KindOfMore(log.more)
        rev == MoreRev(log)
        key == CacheKey(rev, FALSE, limit, 0, 0, FALSE)
        whole == WholeFileKey(FALSE)
        fetched == FetchLog(kind, rev, ask, o)
        requests == RequestsSent(kind, rev, log.endingCursor, ask, o)
        f == Len(futures) + 1
    IN IF ~MoreThroughCache(log, target)
       THEN [log |-> fetched, requests |-> requests, futures |-> futures,
             docState |-> docState, how |-> o.res]
       ELSE IF HasLog(key)
       THEN [log |-> futures[docState.logs[key].item].val, requests |-> <<>>,
             futures |-> futures, docState |-> docState, how |-> "cache"]
       ELSE IF HasLog(whole)
                 /\ CanReconstruct(futures[docState.logs[whole].item].val, rev)
       THEN [log |-> ReconstructLog(futures[docState.logs[whole].item].val, rev, limit),
             requests |-> <<>>, futures |-> futures, docState |-> docState,
             how |-> "cache"]
       ELSE [log |-> fetched, requests |-> requests,
             futures |-> Append(futures, [ResolvedFuture(fetched) EXCEPT
                                              !.key = key, !.rev = rev,
                                              !.limit = limit,
                                              !.called = o.res # "context",
                                              !.failed = ~fetched.isLog]),
             docState |-> IF fetched.isLog THEN SetLog(key, CachedLog(f, NoError))
                          ELSE SetLog(key, CachedLog(EmptyPromise, "error")),
             how |-> o.res]

\* log.more(n) or log.more({until}) once its call has given moreLog
MoreResult(log, n, until, moreLog) ==
    IF UntilSatisfied(log, until) THEN log
    ELSE IF ~moreLog.isLog THEN ExhaustedLog(log)
    ELSE MergedLog(log, moreLog, until, GetPagingLimit(n))

\* the objects of a continuation after log.more(n) or log.more({until}):
\* the Log it was invoked on is only read, the Log of the page it fetched is
\* kept by the merged Log's pagedCommits
MoreObjects(log, n, until, moreLog) ==
    [prior |-> log,
     page |-> IF UntilSatisfied(log, until) THEN NoLog ELSE moreLog,
     same |-> UntilSatisfied(log, until)]

\* Map.delete of every sha of shas
MapDeleteAll(m, shas) == SelectSeq(m, LAMBDA c : \A i \in 1..Len(shas) : shas[i] # c.sha)

\* (mutant) the duplicates are removed from the Log the continuation was
\* invoked on
AfterPagedCommitsOfLog(o) ==
    [o EXCEPT !.prior = [o.prior EXCEPT
        !.commits = MapDeleteAll(o.prior.commits, Shas(o.page.commits))]]

\* pagedCommits: for (const sha of log.commits.keys())
\* moreLog.commits.delete(sha)
AfterPagedCommits(o) ==
    [o EXCEPT !.page = [o.page EXCEPT
        !.commits = MapDeleteAll(o.page.commits, Shas(o.prior.commits))]]

\* the record of the operation just performed; again: it repeats a failed
\* query with the same arguments, or a satisfied until with the same boundary
Operation(op, kind, rev, ask, until, outcome, prior, page) ==
    [op |-> op, kind |-> kind, rev |-> rev, ask |-> ask, until |-> until,
     outcome |-> outcome, prior |-> prior, page |-> page,
     again |-> \/ /\ op = "query"
                  /\ lastOp.op = "query" /\ lastOp.kind = kind
                  /\ lastOp.rev = rev /\ lastOp.ask = ask
                  /\ lastOp.outcome \in {"context", "throw"}
               \/ /\ op = "more" /\ outcome = "satisfied"
                  /\ lastOp.op = "more" /\ lastOp.outcome = "satisfied"
                  /\ lastOp.until = until,
     target |-> "none"]

\* getLog, getLogForPath for a folder, or searchCommits, called by the
\* consumer and run to its return
LogQuery(kind, rev, ask, o) ==
    /\ Len(sent) < MaxRequests
    /\ lg' = FetchLog(kind, rev, ask, o)
    /\ sent' = sent \o RequestsSent(kind, rev, NoCursor, ask, o)
    /\ lastOp' = Operation("query", kind, rev, ask, 0, o.res, NoLog, o.page.values)
    /\ objs' = NoObjects
    /\ ret' = ReturnedLog(lg')
    /\ UNCHANGED <<cacheVars, node>>

LogRevs == {NoRev, 2}

GetLog(rev, ask, o) == LogQuery("getLog", rev, ask, o)

GetLogForFolder(o) == LogQuery("getLogForPath", 2, NoLimit, o)

SearchCommits(o) == LogQuery("searchCommits", NoRev, NoLimit, o)

\* searchCommits with a 'commit:' operation: getCommit answers the commit
\* or nothing
SearchCommitId(oid, found) ==
    /\ Len(sent) < MaxRequests
    /\ lg' = IF found THEN CommitLog(RawCommit(oid, 10 * (Len(sent) + 1))) ELSE NoLog
    /\ sent' = Append(sent, [api |-> "getCommit", rev |-> oid, after |-> NoCursor,
                             limit |-> NoLimit, path |-> FALSE])
    /\ lastOp' = Operation("commit", "searchCommits", oid, NoLimit, 0,
                           IF found THEN "page" ELSE "null", NoLog, <<>>)
    /\ objs' = NoObjects
    /\ ret' = ReturnedLog(lg')
    /\ UNCHANGED <<cacheVars, node>>

\* the arguments of a continuation: a number, nothing, or an until boundary
MoreArgs == {<<NoLimit, 0>>, <<1, 0>>, <<MaxAsk, 0>>, <<NoLimit, 1>>, <<NoLimit, 3>>}

\* (mutant) the continuation's result displaces the whole-file entry
CacheAfterMoreDisplaced(call) ==
    IF call.docState.present /\ WholeFileKey(FALSE) \in DOMAIN call.docState.logs
    THEN [call.docState EXCEPT !.logs[WholeFileKey(FALSE)] = CachedLog(EmptyPromise, NoError)]
    ELSE call.docState

\* the cache after a continuation: as its call of the operation left it,
\* the merged Log is returned and stored nowhere
CacheAfterMore(call) == call.docState

\* lg.more(n) or lg.more({until}) run to its return
More(n, until, o) ==
    /\ MoreOf(lg) # "none"
    /\ lg.more = "searchCommitsCore" => until = 0
    /\ LET call == MoreCall(lg, lastOp.target, n, until, o)
       IN IF UntilSatisfied(lg, until)
          THEN /\ o = [res |-> "context", page |-> NoPage]
               /\ lastOp' = [Operation("more", KindOfMore(lg.more), lg.sha, n, until,
                                       "satisfied", lg, <<>>)
                                EXCEPT !.target = lastOp.target]
               /\ UNCHANGED <<sent, futures, docState>>
          ELSE /\ call.how = "cache" => o = [res |-> "context", page |-> NoPage]
               /\ sent' = sent \o call.requests
               /\ futures' = call.futures
               /\ docState' = CacheAfterMore(call)
               /\ lastOp' = [Operation("more", KindOfMore(lg.more), lg.sha, n, until,
                                       call.how, lg, o.page.values)
                                EXCEPT !.target = lastOp.target]
               /\ lg' = MoreResult(lg, n, until, call.log)
               /\ objs' = MoreObjects(lg, n, until, call.log)
               /\ ret' = ReturnedLog(lg')
    /\ UntilSatisfied(lg, until) =>
          /\ lg' = lg
          /\ objs' = MoreObjects(lg, n, until, NoLog)
          /\ ret' = ReturnedLog(lg)
    /\ UNCHANGED <<calls, epoch, node>>

\* lg.more(n) or lg.more({until}) called by the consumer
LogMore(n, until, o) ==
    /\ MoreOf(lg) # "none"
    /\ UntilSatisfied(lg, until) \/ Len(sent) < MaxRequests
    /\ More(n, until, o)

\* lg.pagedCommits() called by the consumer on the merged Log a getLog
\* continuation has just returned
PagedCommits ==
    /\ lastOp.op = "more"
    /\ lastOp.kind = "getLog"
    /\ lastOp.outcome = "page"
    /\ objs' = AfterPagedCommits(objs)
    /\ ret' = Returned("commits")
    /\ UNCHANGED <<cacheVars, lg, lastOp, sent, node>>

\* getLogForPath for a file, answered from the whole-file entry of the
\* cache: the entry's own Log when no rev is given, else the rebuilt one
CachedPathLog(rev, ask) ==
    LET whole == WholeFileKey(FALSE)
        limit == GetPagingLimit(ask)
    IN /\ HasLog(whole)
       /\ ~HasLog(CacheKey(rev, FALSE, limit, 0, 0, FALSE))
       /\ futures[docState.logs[whole].item].st = "done"
       /\ LET log == futures[docState.logs[whole].item].val
          IN /\ log.isLog
             /\ rev # NoRev => CanReconstruct(log, rev)
             /\ lg' = IF rev = NoRev THEN log ELSE ReconstructLog(log, rev, limit)
             /\ lastOp' = [Operation(IF rev = NoRev THEN "whole" ELSE "rebuild",
                                     "getLogForPath", rev, ask, 0, "cache", log, <<>>)
                              EXCEPT !.target = "file"]
             /\ objs' = NoObjects
             /\ ret' = ReturnedLog(lg')
       /\ UNCHANGED <<cacheVars, sent, node>>

NextLog ==
    \/ \E rev \in LogRevs, ask \in Asks, o \in Outcomes("getLog", Len(sent) + 1) :
          GetLog(rev, ask, o)
    \/ \E o \in Outcomes("getLogForPath", Len(sent) + 1) : GetLogForFolder(o)
    \/ \E o \in Outcomes("searchCommits", Len(sent) + 1) : SearchCommits(o)
    \/ \E oid \in {2}, found \in BOOLEAN : SearchCommitId(oid, found)
    \/ \E a \in MoreArgs, o \in Outcomes(KindOfMore(MoreOf(lg)), Len(sent) + 1) :
          LogMore(a[1], a[2], o)
    \/ PagedCommits
    \/ \E rev \in {NoRev, 1, 2}, ask \in Asks : CachedPathLog(rev, ask)

\* the cache holds a whole-file entry: the complete file log, or a page of
\* it with more to come
InitLog ==
    /\ Init
    /\ HasLog(WholeFileKey(FALSE))
    /\ futures[2].val.isLog
    /\ Len(futures[2].val.commits) >= 2

SpecLog == InitLog /\ [][NextLog]_vars

(***************************************************************************)
(* One chain of continuations over the remote's history: a first page of   *)
(* getLog or of getLogForPath for a folder, then more(n) with a number on  *)
(* the latest Log, every request answered by the remote with the page it   *)
(* asks for, or failing.                                                   *)
(***************************************************************************)
\* no chain is followed past this many requests
MaxPages == 4

\* the heads of the repository when the chain starts; later calls see
\* HeadRevision
Heads == {2, HeadRevision}

\* rev = !rev || rev === 'HEAD' ? (await metadata.getRevision()).revision :
\* rev, the head being head when the operation is called
ResolveRevisionAt(rev, head) == IF rev = NoRev THEN head ELSE rev

\* what the collaborators answer in a chain: no repository context, a
\* remote call that throws, or a page of the history
ChainOutcomes ==
    {[res |-> r, page |-> NoPage] : r \in {"context", "throw"}}
        \cup {[res |-> "page", page |-> RemotePage(rev, after, limit)] :
                rev \in 1..Len(History), after \in 0..Len(History),
                limit \in 1..MaxPageSize}

\* the page answered is the one the request asks for
Served(o, requests) ==
    o.res = "page" =>
        /\ requests # <<>>
        /\ o.page = RemotePage(requests[1].rev, requests[1].after, requests[1].limit)

\* getLog or getLogForPath for a folder, called by the consumer for the
\* first page of a chain, the head being head
ChainQuery(kind, rev, ask, head, o) ==
    /\ lastOp = NoOperation
    /\ LET resolved == ResolveRevisionAt(rev, head)
           requests == RequestsSent(kind, resolved, NoCursor, ask, o)
       IN /\ Served(o, requests)
          /\ lg' = FetchLog(kind, resolved, ask, o)
          /\ sent' = sent \o requests
          /\ lastOp' = Operation("query", kind, rev, ask, 0, o.res, NoLog, o.page.values)
    /\ objs' = NoObjects
    /\ ret' = ReturnedLog(lg')
    /\ UNCHANGED <<cacheVars, node>>

\* lg.more(n) with a number, or nothing, called by the consumer on the
\* latest Log of the chain
ChainMore(n, o) ==
    /\ MoreOf(lg) # "none"
    /\ Len(sent) < MaxPages
    /\ Served(o, MoreCall(lg, lastOp.target, n, 0, o).requests)
    /\ More(n, 0, o)

ChainMoreStep == \E n \in {NoLimit, 1, MaxAsk}, o \in ChainOutcomes : ChainMore(n, o)

NextChain ==
    \/ \E rev \in LogRevs, ask \in Asks, head \in Heads, o \in ChainOutcomes :
          ChainQuery("getLog", rev, ask, head, o)
    \/ \E rev \in LogRevs, ask \in Asks, head \in Heads, o \in ChainOutcomes :
          ChainQuery("getLogForPath", rev, ask, head, o)
    \/ ChainMoreStep

\* the consumer keeps calling more while the Log has one, and every call
\* answers
SpecChain == Init /\ [][NextChain]_vars /\ WF_vars(ChainMoreStep)

(***************************************************************************)
(* ContributorNode: the node keeps the Log of its contributor (_log) and   *)
(* a limit, loads the first page lazily in getLog, and pages with          *)
(* loadMore.  getChildren and loadMore run concurrently, each a sequence   *)
(* of steps between its awaits; loadMore is gated (one call in flight).    *)
(***************************************************************************)
\* engine requests a node sends in a behaviour
MaxQueries == 2

\* calls of refresh(true) in a behaviour
MaxResets == 1

\* view.config.defaultItemLimit and view.config.pageItemLimit
DefaultItemLimit == 1
PageItemLimit == 1

\* what the engine's collaborators answer to a call of the node: the remote
\* call throws, or the remote answers a page
NodeOutcomes(k) ==
    {[res |-> "throw", page |-> NoPage]}
        \cup {[res |-> "page",
               page |-> [values |-> RawPage(shas, k), more |-> pg[1], cursor |-> pg[2]]] :
                shas \in {<<1>>, <<1, 2>>}, pg \in {<<FALSE, NoCursor>>, <<TRUE, k>>}}

NodeKinds == {"getLog", "getLogForPath"}

\* limit: this.limit ?? this.view.config.defaultItemLimit
NodeAsk == IF node.limit # NoLimit THEN node.limit ELSE DefaultItemLimit

\* (mutant) a Log with no more data is paged all the same
NothingMoreAbsentOnly(log) == ~log.isLog

\* !log?.hasMore
NothingMore(log) == ~log.isLog \/ ~log.hasMore

\* (mutant) the node's limit is the Log's limit
LimitOfLimit(log) == IF log.isLog THEN log.limit ELSE NoLimit

\* log?.count
LimitOf(log) == IF log.isLog THEN log.count ELSE NoLimit

\* this._log ??= await svc.commits.getLog(...) / getLogForPath(...), up to
\* its await: with a log held nothing is evaluated, else the engine is
\* queried
GetLogCall(proc, kind) ==
    IF node.log.isLog
    THEN /\ node' = [node EXCEPT ![proc] =
                [IdleProc EXCEPT !.pc = "got", !.log = node.log,
                                 !.logId = node.logId, !.logGen = node.logGen]]
         /\ UNCHANGED sent
    ELSE /\ Len(sent) < MaxQueries
         /\ node.kind \in {"none", kind}
         /\ node' = [node EXCEPT !.kind = kind,
                                 ![proc] = [IdleProc EXCEPT !.pc = "query",
                                                            !.gen = node.resets,
                                                            !.n = NodeAsk]]
         /\ sent' = Append(sent, Request(kind, NoRev, NoCursor, GetPagingLimit(NodeAsk)))

\* the engine has answered the query of getLog: this._log is assigned the
\* answer and returned
GetLogAnswer(proc, o, then) ==
    LET log == FetchLog(node.kind, NoRev, node[proc].n, o)
        id == IF log.isLog THEN node.nextId ELSE 0
    IN node' = [node EXCEPT !.log = log,
                            !.logId = id,
                            !.logGen = node[proc].gen,
                            !.nextId = node.nextId + 1,
                            ![proc] = [IdleProc EXCEPT !.pc = then, !.log = log,
                                                       !.logId = id,
                                                       !.logGen = node[proc].gen]]

\* getChildren calls getLog
GetChildren(kind) ==
    /\ node.get.pc = "idle"
    /\ GetLogCall("get", kind)
    /\ UNCHANGED <<cacheVars, lg, lastOp, objs, ret>>

\* getChildren's query is answered: the children are built from the log
GetChildrenAnswer(o) ==
    /\ node.get.pc = "query"
    /\ GetLogAnswer("get", o, "idle")
    /\ UNCHANGED <<cacheVars, logVars>>

\* getChildren is given the log held: the children are built from it
GetChildrenGot ==
    /\ node.get.pc = "got"
    /\ node' = [node EXCEPT !.get = IdleProc]
    /\ UNCHANGED <<cacheVars, logVars>>

\* loadMore(limit) or loadMore({until}) is called while none is in flight:
\* it calls getLog (its argument is drawn where it is first used)
LoadMore(kind) ==
    /\ node.load.pc = "idle"
    /\ GetLogCall("load", kind)
    /\ UNCHANGED <<cacheVars, lg, lastOp, objs, ret>>

\* loadMore's query is answered
LoadMoreAnswer(o) ==
    /\ node.load.pc = "query"
    /\ GetLogAnswer("load", o, "got")
    /\ UNCHANGED <<cacheVars, logVars>>

\* loadMore has the log of getLog: if (!log?.hasMore) return; else
\* log.more?.(limit ?? pageItemLimit) is called (arg: the number or the
\* until boundary loadMore was given), which returns at once when the Log
\* has no continuation or holds the boundary, and else asks the engine for
\* a page
LoadMoreGot(n, until) ==
    LET log == node.load.log
    IN /\ node.load.pc = "got"
       /\ IF NothingMore(log)
          THEN /\ n = NoLimit /\ until = 0
               /\ node' = [node EXCEPT !.load = IdleProc, !.did = "nomore"]
               /\ UNCHANGED sent
          ELSE /\ node' = [node EXCEPT !.load.pc = "more", !.load.n = n,
                                       !.load.until = until]
               /\ IF MoreOf(log) = "none" \/ UntilSatisfied(log, until)
                  THEN UNCHANGED sent
                  ELSE /\ Len(sent) < MaxQueries
                       /\ sent' = Append(sent,
                              Request(KindOfMore(log.more), MoreRev(log), log.endingCursor,
                                      GetPagingLimit(MoreAsk(log,
                                          IF n = NoLimit THEN PageItemLimit ELSE n, until))))
    /\ UNCHANGED <<cacheVars, lg, lastOp, objs, ret>>

\* the Log log.more?.(...) gives: undefined without a continuation, the Log
\* itself when it holds the boundary, else the continuation's result
MoreOfNode(load, o) ==
    LET n == IF load.n = NoLimit THEN PageItemLimit ELSE load.n
    IN IF MoreOf(load.log) = "none" THEN [log |-> NoLog, id |-> 0]
       ELSE IF UntilSatisfied(load.log, load.until)
       THEN [log |-> load.log, id |-> load.logId]
       ELSE [log |-> MoreResult(load.log, n, load.until,
                                MoreCall(load.log, "none", n, load.until, o).log),
             id |-> node.nextId]

\* log.more has answered: if (this._log === log) return; else the node
\* takes the Log, its count for limit, and triggers a change
LoadMoreMerged(o) ==
    LET res == MoreOfNode(node.load, o)
    IN /\ node.load.pc = "more"
       /\ (MoreOf(node.load.log) = "none" \/ UntilSatisfied(node.load.log, node.load.until))
             => o = [res |-> "throw", page |-> NoPage]
       /\ node' = IF node.logId = res.id
                  THEN [node EXCEPT !.load = IdleProc, !.did = "same"]
                  ELSE [node EXCEPT !.log = res.log,
                                    !.logId = res.id,
                                    !.logGen = node.load.logGen,
                                    !.limit = LimitOf(res.log),
                                    !.changes = node.changes + 1,
                                    !.nextId = node.nextId + 1,
                                    !.load = IdleProc,
                                    !.did = "replaced"]
       /\ UNCHANGED <<cacheVars, logVars>>

\* refresh(true)
RefreshReset ==
    /\ node.resets < MaxResets
    /\ node' = [node EXCEPT !.log = NoLog, !.logId = 0, !.resets = node.resets + 1]
    /\ UNCHANGED <<cacheVars, logVars>>

\* the arguments of loadMore: nothing, a number, an until boundary
LoadArgs == {<<NoLimit, 0>>, <<MaxAsk, 0>>, <<NoLimit, 1>>, <<NoLimit, 3>>}

NextNode ==
    \/ \E kind \in NodeKinds : GetChildren(kind)
    \/ \E o \in NodeOutcomes(node.nextId) : GetChildrenAnswer(o)
    \/ GetChildrenGot
    \/ \E kind \in NodeKinds : LoadMore(kind)
    \/ \E o \in NodeOutcomes(node.nextId) : LoadMoreAnswer(o)
    \/ \E a \in LoadArgs : LoadMoreGot(a[1], a[2])
    \/ \E o \in NodeOutcomes(node.nextId) : LoadMoreMerged(o)
    \/ RefreshReset

\* the node over an engine whose document has no state yet
InitNode == Init /\ docState = DocNull

SpecNode == InitNode /\ [][NextNode]_vars

(***************************************************************************)
(* The operations that answer in one call: isAncestorOf,                   *)
(* getLeftRightCommitCount, getCommit, getCommitCount, getCommitFiles,     *)
(* getLogShas, and getLogForPath up to its check of the path.              *)
(***************************************************************************)
\* a request of an operation that takes no page
PlainRequest(api, rev) ==
    [api |-> api, rev |-> rev, after |-> NoCursor, limit |-> NoLimit, path |-> FALSE]

\* what the collaborators answer to a one-call operation: the repository
\* context cannot be resolved, the remote call throws, the remote answers
\* nothing, or it answers a value
CallOutcomes == {"context", "throw", "null", "value"}

\* the statuses of a comparison
Statuses == {"identical", "behind", "ahead", "diverged", "unknown"}

\* the record of a one-call operation; target "norepo": repoPath is null
Call(kind, repo, rev, outcome) ==
    [Operation("call", kind, rev, NoLimit, 0, outcome, NoLog, <<>>)
        EXCEPT !.target = IF repo THEN "none" ELSE "norepo"]

\* a one-call operation ends: its request, if it sent one, and what its
\* caller gets
CallEnds(call, requests, result) ==
    /\ Len(sent) < MaxRequests
    /\ lastOp' = call
    /\ sent' = sent \o requests
    /\ ret' = result
    /\ lg' = NoLog
    /\ objs' = NoObjects
    /\ UNCHANGED <<cacheVars, node>>

\* (mutant) ahead is taken for an ancestor too
IsAncestorStatusAhead(status) == status \in {"identical", "behind", "ahead"}

\* switch (result?.status): identical and behind are true, all else false
IsAncestorStatus(status) == status \in {"identical", "behind"}

\* isAncestorOf: the repository context is resolved outside the try block,
\* the comparison inside it
IsAncestorOf(repo, res, status) ==
    CallEnds(Call("isAncestorOf", repo, 2, IF res = "value" THEN status ELSE res),
             IF repo /\ res # "context" THEN <<PlainRequest("getComparison", 2)>> ELSE <<>>,
             IF ~repo THEN Returned("false")
             ELSE IF res = "context" THEN Raised
             ELSE IF res = "value" /\ IsAncestorStatus(status) THEN Returned("true")
             ELSE Returned("false"))

\* getLeftRightCommitCount: the repository context is resolved outside the
\* try block, the comparison inside it
GetLeftRightCommitCount(repo, res) ==
    CallEnds(Call("getLeftRightCommitCount", repo, 2, res),
             IF repo /\ res # "context" THEN <<PlainRequest("getComparison", 2)>> ELSE <<>>,
             IF ~repo THEN Returned("undefined")
             ELSE IF res = "context" THEN Raised
             ELSE IF res = "value" THEN Returned("counts")
             ELSE Returned("undefined"))

\* what getCommit gives: for an uncommitted rev the current user is asked
\* for (no repository context, no request), else the remote; all of it in
\* the try block
CommitResult(repo, uncommitted, res) ==
    IF repo /\ res = "value" THEN "commit" ELSE "undefined"

CommitRequests(repo, uncommitted, rev, res) ==
    IF repo /\ ~uncommitted /\ res # "context"
    THEN <<PlainRequest("getCommit", rev)>> ELSE <<>>

GetCommit(repo, uncommitted, res) ==
    /\ uncommitted => res \in {"throw", "value"}
    /\ CallEnds([Call("getCommit", repo, 2, res) EXCEPT !.until = IF uncommitted THEN 1 ELSE 0],
                CommitRequests(repo, uncommitted, 2, res),
                Returned(CommitResult(repo, uncommitted, res)))

\* getCommitCount: all of it in the try block
GetCommitCount(repo, res) ==
    CallEnds(Call("getCommitCount", repo, 2, res),
             IF repo /\ res # "context" THEN <<PlainRequest("getCommitCount", 2)>> ELSE <<>>,
             IF repo /\ res = "value" THEN Returned("count") ELSE Returned("undefined"))

\* getCommitFiles: nothing for a missing or uncommitted rev, else the files
\* of getCommit's commit
GetCommitFiles(repo, uncommitted, res) ==
    /\ uncommitted => res = "value"
    /\ CallEnds([Call("getCommitFiles", repo, 2, res) EXCEPT !.until = IF uncommitted THEN 1 ELSE 0],
                IF uncommitted THEN <<>> ELSE CommitRequests(repo, FALSE, 2, res),
                IF ~uncommitted /\ CommitResult(repo, FALSE, res) = "commit"
                THEN Returned("files") ELSE Returned("empty"))

\* getLogShas: the ids of getLog's Log, nothing when there is none
GetLogShas(rev, ask, o) ==
    CallEnds([Call("getLogShas", TRUE, rev, o.res) EXCEPT !.ask = ask, !.page = o.page.values],
             RequestsSent("getLog", rev, NoCursor, ask, o),
             IF FetchLog("getLog", rev, ask, o).isLog
             THEN Returned("shas") ELSE Returned("empty"))

\* (mutant) no path is taken for the repository
PathIsNeverRepository(target) == FALSE

\* repoPath === relativePath
PathIsRepository(target) == target = "root"

\* the paths of a getLogForPath: none with a null repoPath, the repository
\* itself, or a folder of it
PathTargets == {"norepo", "root", "folder"}

\* getLogForPath: nothing for a null repoPath, an error for the repository
\* itself, else (a folder) the fetch
GetLogForPath(target, o) ==
    LET fetched == target # "norepo" /\ ~PathIsRepository(target)
        log == IF fetched THEN FetchLog("getLogForPath", 2, NoLimit, o) ELSE NoLog
    IN /\ Len(sent) < MaxRequests
       /\ ~fetched => o = [res |-> "context", page |-> NoPage]
       /\ lastOp' = [Operation("query", "getLogForPath", 2, NoLimit, 0,
                               IF fetched THEN o.res ELSE "none", NoLog, o.page.values)
                        EXCEPT !.target = target]
       /\ lg' = log
       /\ sent' = IF fetched
                  THEN sent \o RequestsSent("getLogForPath", 2, NoCursor, NoLimit, o)
                  ELSE sent
       /\ ret' = IF target = "norepo" THEN Returned("undefined")
                 ELSE IF PathIsRepository(target) THEN Raised
                 ELSE ReturnedLog(log)
       /\ objs' = NoObjects
       /\ UNCHANGED <<cacheVars, node>>

NextOps ==
    \/ \E repo \in BOOLEAN, res \in CallOutcomes, status \in Statuses :
          IsAncestorOf(repo, res, status)
    \/ \E repo \in BOOLEAN, res \in CallOutcomes : GetLeftRightCommitCount(repo, res)
    \/ \E repo \in BOOLEAN, uncommitted \in BOOLEAN, res \in CallOutcomes :
          GetCommit(repo, uncommitted, res)
    \/ \E repo \in BOOLEAN, res \in CallOutcomes : GetCommitCount(repo, res)
    \/ \E repo \in BOOLEAN, uncommitted \in BOOLEAN, res \in CallOutcomes :
          GetCommitFiles(repo, uncommitted, res)
    \/ \E rev \in LogRevs, o \in Outcomes("getLog", Len(sent) + 1) :
          GetLogShas(rev, NoLimit, o)
    \/ \E target \in PathTargets, o \in Outcomes("getLogForPath", Len(sent) + 1) :
          GetLogForPath(target, o)
    \/ \E rev \in LogRevs, o \in Outcomes("getLog", Len(sent) + 1) :
          GetLog(rev, NoLimit, o)
    \/ \E o \in Outcomes("searchCommits", Len(sent) + 1) : SearchCommits(o)

SpecOps == Init /\ [][NextOps]_vars

(***************************************************************************)
(* The cache key of a request, from the options as the caller gives them.  *)
(***************************************************************************)
\* the requests: revision, page size, and the flags and options that are
\* cacheable (0: absent)
KeyQueries ==
    {[rev |-> rev, ask |-> ask, all |-> fl[1], renames |-> fl[2],
      merges |-> mo[1], ordering |-> mo[2]] :
        rev \in QueryRevs, ask \in Asks,
        fl \in {<<FALSE, FALSE>>, <<TRUE, FALSE>>, <<FALSE, TRUE>>},
        mo \in {<<0, 0>>, <<1, 0>>, <<0, 1>>}}

\* options = { ...options, all: false, limit: getPagingLimit(options?.limit),
\* renames: false }
NormalisedOptions(q) ==
    [all |-> FALSE, limit |-> GetPagingLimit(q.ask), renames |-> FALSE,
     merges |-> q.merges, ordering |-> q.ordering]

\* the cache key getLogForPath builds for a cacheable request of a file
RequestKey(q) ==
    LET o == NormalisedOptions(q)
    IN CacheKey(q.rev, o.all, o.limit, o.merges, o.ordering, o.renames)

\* getLogForPath up to the cache key, for a cacheable request of a file
BuildKey(p, q) ==
    /\ calls' = [calls EXCEPT ![p] =
            [IdleCall EXCEPT !.pc = "keyed",
                             !.rev = q.rev,
                             !.limit = NormalisedOptions(q).limit,
                             !.opt = [all |-> q.all, renames |-> q.renames]
                                        @@ [NoOpts EXCEPT !.merges = q.merges,
                                                          !.ordering = q.ordering],
                             !.key = RequestKey(q)]]
    /\ UNCHANGED <<futures, docState, epoch, logVars, node>>

NextKey == \E p \in Callers, q \in KeyQueries : BuildKey(p, q)

\* no document state yet
InitKey == Init /\ docState = DocNull

SpecKey == InitKey /\ [][NextKey]_vars

(***************************************************************************)
(* The display names of a commit's author and committer.                   *)
(***************************************************************************)
\* an absent name or label
NoName == "none"

Names == {NoName, "ann", "bob"}

\* the operations that build commits
CommitBuilders == {"getCommit", "getCommitForFile", "getLog", "getLogForPath", "searchCommits"}

\* const { viewer = session.account.label } = result; searchCommits takes
\* the session's label
ViewerOf(kind, viewer, label) ==
    IF kind = "searchCommits" THEN label
    ELSE IF viewer # NoName THEN viewer ELSE label

\* (mutant) the names are compared whether a viewer is known or not
DisplayNameUnguarded(viewer, name) == IF name = viewer THEN "You" ELSE name

\* viewer != null && name === viewer ? 'You' : name
DisplayName(viewer, name) == IF viewer # NoName /\ name = viewer THEN "You" ELSE name

\* an operation builds a commit from a raw record: the remote's viewer, the
\* session's label, the raw names
BuildIdentity(kind, viewer, label, author, committer) ==
    /\ lastOp' = [Operation("identity", kind, NoRev, NoLimit, 0, "value", NoLog,
                            <<[viewer |-> viewer, label |-> label,
                               author |-> author, committer |-> committer]>>)
                     EXCEPT !.target = "commit"]
    /\ ret' = [how |-> "returned", val |-> "commit",
               author |-> DisplayName(ViewerOf(kind, viewer, label), author),
               committer |-> DisplayName(ViewerOf(kind, viewer, label), committer)]
    /\ UNCHANGED <<cacheVars, lg, sent, objs, node>>

NextIdentity ==
    \E kind \in CommitBuilders, viewer \in Names, label \in Names,
       author \in Names, committer \in Names :
          BuildIdentity(kind, viewer, label, author, committer)

SpecIdentity == Init /\ [][NextIdentity]_vars

(***************************************************************************)
(* Properties of getLog, searchCommits and the continuations.              *)
(***************************************************************************)
\* the step is a getLog whose remote call fails
GetLogFails ==
    /\ lastOp'.op = "query"
    /\ lastOp'.kind = "getLog"
    /\ lastOp'.outcome = "throw"

\* the step is a getLog that repeats a failed getLog with the same
\* arguments, and its repository context resolves
GetLogRepeated ==
    /\ lastOp'.op = "query"
    /\ lastOp'.kind = "getLog"
    /\ lastOp'.again
    /\ lastOp'.outcome # "context"
    /\ lastOp.op = "query" /\ lastOp.kind = "getLog"

\* C8: a getLog whose remote call fails returns undefined and records
\* nothing in the cache of the document, and a getLog repeated with the same
\* arguments after a failed one invokes the remote client again: no failure
\* of getLog is cached.
C8_GetLogFailureNotCached ==
    [][/\ GetLogFails =>
            /\ lg' = NoLog
            /\ docState' = docState
            /\ futures' = futures
       /\ GetLogRepeated =>
            sent' = Append(sent, Request("getLog", lastOp'.rev, NoCursor,
                                         GetPagingLimit(lastOp'.ask)))]_vars

\* a getLog failed at the remote, and the same getLog after it reached the
\* remote again
C8_Witness ==
    /\ lastOp.op = "query"
    /\ lastOp.kind = "getLog"
    /\ lastOp.again
    /\ lastOp.outcome = "throw"
    /\ lg = NoLog
    /\ Len(sent) = 2
    /\ sent[1] = sent[2]
    /\ sent[2].api = "getCommits"

\* no commit id appears twice in the commits of the Log
NoDuplicates(log) ==
    \A i, j \in 1..Len(log.commits) :
        log.commits[i].sha = log.commits[j].sha => i = j

\* C10: every Log an operation returns (getLog, getLogForPath and its
\* reconstruction from the cache, searchCommits, and every result of a
\* continuation, the failure result included) has count equal to the number
\* of its commits, and no commit id twice.
C10_CountIsSize ==
    lg.isLog => lg.count = Len(lg.commits) /\ NoDuplicates(lg)

\* a continuation merged a page that repeats commits of the Log it
\* continues, and a page that repeats an id in itself
C10_Witness ==
    /\ lastOp.op = "more"
    /\ lastOp.outcome = "page"
    /\ lg.isLog
    /\ Len(lastOp.page) = 2
    /\ lastOp.page[1].oid = lastOp.page[2].oid
    /\ MapHas(lastOp.prior.commits, lastOp.page[1].oid)
    /\ lg.count = Len(lastOp.prior.commits)

\* C11: every Log an operation returns with hasMore false carries no more
\* continuation, the Logs rebuilt from the cache and the result of a failed
\* continuation included.
C11_NoMoreWhenExhausted ==
    (lg.isLog /\ ~lg.hasMore) => MoreOf(lg) = "none"

\* a continuation failed on a Log that had one, and its result has none
C11_Witness ==
    /\ lastOp.op = "more"
    /\ lastOp.outcome = "throw"
    /\ lastOp.prior.hasMore
    /\ MoreOf(lastOp.prior) # "none"
    /\ lg.isLog
    /\ ~lg.hasMore
    /\ MoreOf(lg) = "none"

\* C12: every Log an operation returns with hasMore true carries a more
\* continuation.
C12_MoreWhenHasMore ==
    (lg.isLog /\ lg.hasMore) => MoreOf(lg) # "none"

\* a continuation merged a page and its result has more to come
C12_Witness ==
    /\ lastOp.op = "more"
    /\ lastOp.outcome = "page"
    /\ lg.isLog
    /\ lg.hasMore
    /\ MoreOf(lg) = MoreOf(lastOp.prior)
    /\ MoreOf(lg) # "none"

\* C13: more({until: id}) on a Log whose commits already hold id returns
\* that same Log, sends no request and changes neither the Log nor the
\* cache, also when it is repeated.
C13_SatisfiedUntilIsIdle ==
    [][(/\ lastOp'.op = "more"
        /\ lastOp'.prior = lg
        /\ lastOp'.until # 0
        /\ lg.isLog
        /\ MapHas(lg.commits, lastOp'.until)
        /\ ret'.val = "log")
       => /\ lg' = lg
          /\ sent' = sent
          /\ objs'.same
          /\ objs'.prior = lg
          /\ docState' = docState
          /\ futures' = futures]_vars

\* more({until: id}) was called twice running on a Log that holds id
C13_Witness ==
    /\ lastOp.op = "more"
    /\ lastOp.again
    /\ lastOp.until # 0
    /\ lg = lastOp.prior
    /\ MapHas(lg.commits, lastOp.until)
    /\ objs.same

\* the ids of the raw page that are not among shas, each once, in page order
NewIds(page, shas) ==
    LET firsts == {j \in 1..Len(page) :
                      /\ \A i \in 1..Len(shas) : shas[i] # page[j].oid
                      /\ \A i \in 1..(j - 1) : page[i].oid # page[j].oid}
        order == CHOOSE sq \in [1..Cardinality(firsts) -> firsts] :
                    \A a, b \in 1..Cardinality(firsts) : a < b => sq[a] < sq[b]
    IN [k \in 1..Cardinality(firsts) |-> page[order[k]].oid]

\* C14: after a successful more call the ids of the merged Log are the ids
\* of the prior Log followed by the ids of the new page that the prior Log
\* does not hold, in page order, each id once, and count is the number of
\* distinct ids.
C14_MergeKeepsOrder ==
    (lastOp.op = "more" /\ lastOp.outcome = "page") =>
        /\ Shas(lg.commits)
             = Shas(lastOp.prior.commits) \o NewIds(lastOp.page, Shas(lastOp.prior.commits))
        /\ lg.count = Cardinality({lg.commits[i].sha : i \in 1..Len(lg.commits)})
        /\ lg.count = Len(lg.commits)

\* pages [1, 2] then [2, 3] were merged into [1, 2, 3]
C14_Witness ==
    /\ lastOp.op = "more"
    /\ lastOp.outcome = "page"
    /\ Shas(lastOp.prior.commits) = <<1, 2>>
    /\ [j \in 1..Len(lastOp.page) |-> lastOp.page[j].oid] = <<2, 3>>
    /\ Shas(lg.commits) = <<1, 2, 3>>
    /\ lg.count = 3

\* the fetch of the next page gave no Log
FetchGaveNothing == lastOp.outcome \in {"context", "throw", "null", "noquery"}

\* C15: when the fetch of the next page fails or gives nothing, the more
\* call returns to its caller a Log equal to the prior one except that
\* hasMore is false and more is absent.
C15_FailedMoreEndsPaging ==
    (lastOp.op = "more" /\ FetchGaveNothing) =>
        /\ ret = Returned("log")
        /\ lg = [lastOp.prior EXCEPT !.hasMore = FALSE, !.more = "none"]
        /\ lg.commits = lastOp.prior.commits

\* a search continuation whose remote call answered nothing
C15_Witness ==
    /\ lastOp.op = "more"
    /\ lastOp.kind = "searchCommits"
    /\ lastOp.outcome = "null"
    /\ lastOp.prior.hasMore
    /\ Len(lastOp.prior.commits) > 0
    /\ ~lg.hasMore
    /\ lg.commits = lastOp.prior.commits

\* C16: a more call leaves the Log it was invoked on as it was returned,
\* whether it merged a page, failed or found its until boundary, and what
\* it returns after a fetch is another object; pagedCommits removes commits
\* from the page's Log only.
C16_MoreLeavesLogAlone ==
    lastOp.op = "more" =>
        /\ objs.prior = lastOp.prior
        /\ lastOp.outcome # "satisfied" => ~objs.same

\* pagedCommits removed from the page's Log the commits the prior Log holds
C16_Witness ==
    /\ lastOp.op = "more"
    /\ lastOp.outcome = "page"
    /\ ret = Returned("commits")
    /\ objs.page.isLog
    /\ Len(objs.page.commits) < objs.page.count
    /\ objs.prior = lastOp.prior
    /\ Len(objs.prior.commits) > 0

(***************************************************************************)
(* Properties of the operations that answer in one call.                   *)
(***************************************************************************)
\* C17: isAncestorOf returns true exactly when the comparison's status is
\* identical or behind; it returns false for ahead, diverged, any other
\* status, an absent comparison, a null repository path and a comparison
\* call that fails.
C17_AncestorByStatus ==
    lastOp.kind = "isAncestorOf" =>
        /\ ret = Returned("true")
             <=> (lastOp.target # "norepo" /\ lastOp.outcome \in {"identical", "behind"})
        /\ (\/ lastOp.target = "norepo"
            \/ lastOp.outcome \in {"ahead", "diverged", "unknown", "null", "throw"})
             => ret = Returned("false")

\* the comparison answered behind and isAncestorOf returned true
C17_Witness ==
    /\ lastOp.kind = "isAncestorOf"
    /\ lastOp.target # "norepo"
    /\ lastOp.outcome = "behind"
    /\ ret = Returned("true")
    /\ Len(sent) > 0
    /\ sent[Len(sent)].api = "getComparison"

\* C18: no public operation lets the failure of a collaborator call (the
\* resolution of the repository context, or a call of the remote client)
\* reach its caller as an error: each returns its undefined, empty or false
\* result.
C18_NoFailureEscapes ==
    (lastOp.target # "norepo" /\ lastOp.outcome \in {"context", "throw"})
        => ret.how = "returned"

\* C19: getLogForPath on the repository itself raises an error at once: it
\* returns nothing, sends no request and leaves the cache as it is.
C19_RootPathRaises ==
    [][(/\ lastOp'.op = "query"
        /\ lastOp'.kind = "getLogForPath"
        /\ lastOp'.target = "root")
       => /\ ret' = Raised
          /\ lg' = NoLog
          /\ sent' = sent
          /\ docState' = docState
          /\ futures' = futures]_vars

\* getLogForPath raised on the repository itself after an operation that
\* had sent a request
C19_Witness ==
    /\ lastOp.kind = "getLogForPath"
    /\ lastOp.target = "root"
    /\ ret = Raised
    /\ Len(sent) = 1

\* C20: after a successful more call with a number or nothing, the limit of
\* the merged Log is the prior Log's limit (0 when absent) plus the page
\* size asked of the remote, which is the argument after the paging-limit
\* policy.
C20_LimitAccumulates ==
    (lastOp.op = "more" /\ lastOp.outcome = "page" /\ lastOp.until = 0) =>
        /\ lg.limit = lastOp.prior.limit + sent[Len(sent)].limit
        /\ sent[Len(sent)].limit = GetPagingLimit(lastOp.ask)
        /\ sent[Len(sent)].limit <= MaxPageSize

\* more(n) with n above the largest page size, on a Log that had a limit
C20_Witness ==
    /\ lastOp.op = "more"
    /\ lastOp.outcome = "page"
    /\ lastOp.until = 0
    /\ lastOp.ask = MaxAsk
    /\ lastOp.prior.limit = 1
    /\ lg.limit = 1 + MaxPageSize

\* more(n) on a Log without a limit
C20_WitnessNoLimit ==
    /\ lastOp.op = "more"
    /\ lastOp.outcome = "page"
    /\ lastOp.prior.limit = NoLimit
    /\ lg.limit = GetPagingLimit(lastOp.ask)

(***************************************************************************)
(* Properties of the continuations: limit, end of the chain, cursors.      *)
(***************************************************************************)
\* C21: a more call with an until boundary leaves the page-size budget as
\* it was: the Log it returns has the limit of the Log it was invoked on.
C21_UntilKeepsLimit ==
    (lastOp.op = "more" /\ lastOp.until # 0) => lg.limit = lastOp.prior.limit

\* C22: whenever the page fetched by a more call (with a number or with an
\* until boundary) reports no more data, the Log returned has hasMore false
\* and no more continuation.
C22_ChainEndsWithRemote ==
    (lastOp.op = "more" /\ lastOp.outcome = "page" /\ ~objs.page.hasMore)
        => (~lg.hasMore /\ MoreOf(lg) = "none")

\* the step is a more call that did not find its until boundary held
MoreFetches ==
    /\ lastOp'.op = "more"
    /\ lastOp'.outcome # "satisfied"
    /\ lastOp'.prior = lg
    /\ ret'.val # "commits"

\* C23: each more call that is not already satisfied sends exactly one page
\* request, whose continuation token is the endingCursor of the Log it was
\* invoked on (so it is not answered from the query cache and does not start
\* again from the first page); the merged Log's endingCursor is the new
\* page's cursor; and only an initial query or a more call sends a request.
C23_CursorThreading ==
    [][/\ MoreFetches =>
            /\ lastOp'.outcome \notin {"context", "noquery"} =>
                  /\ Len(sent') = Len(sent) + 1
                  /\ SubSeq(sent', 1, Len(sent)) = sent
                  /\ sent'[Len(sent')].after = lg.endingCursor
                  /\ sent'[Len(sent')].after # NoCursor
            /\ lastOp'.outcome = "page" => lg'.endingCursor = objs'.page.endingCursor
       /\ sent' # sent => lastOp'.op \in {"query", "commit", "more"}]_vars

\* the commits of the first record of each id of the raw page, in page order
FirstOccurrences(page) ==
    LET ids == NewIds(page, <<>>)
    IN [k \in 1..Len(ids) |->
            GitCommit(page[CHOOSE j \in 1..Len(page) :
                              /\ page[j].oid = ids[k]
                              /\ \A i \in 1..(j - 1) : page[i].oid # ids[k]])]

\* C24: the Log built from a raw page holds each distinct id once, where it
\* first occurs in the page and with the record of that first occurrence;
\* later records of the id are dropped and the order is the page's.
C24_FirstOccurrenceKept ==
    (lastOp.op = "query" /\ lastOp.outcome = "page")
        => lg.commits = FirstOccurrences(lastOp.page)

\* a page with the same id twice gave a Log with the first record only
C24_Witness ==
    /\ lastOp.op = "query"
    /\ lastOp.outcome = "page"
    /\ Len(lastOp.page) = 2
    /\ lastOp.page[1].oid = lastOp.page[2].oid
    /\ lastOp.page[1].ver # lastOp.page[2].ver
    /\ lg.commits = <<GitCommit(lastOp.page[1])>>

\* C25: the query function of a Log re-issues the operation that produced
\* the Log (for a merged Log, the first Log of its chain).
C25_QueryReissuesOperation ==
    (lg.isLog /\ "query" \in DOMAIN lg) => lg.query = lastOp.kind

(***************************************************************************)
(* Properties of the cache key and of the display names.                   *)
(***************************************************************************)
Keyed == {p \in Callers : calls[p].pc = "keyed"}

\* C26: two cacheable requests of a path that agree on revision, page
\* limit, merges and ordering get the same cache key whatever their all and
\* renames flags, and two that differ in revision or in page limit get
\* different keys (the page limit being the one the paging-limit policy
\* gives).
C26_KeyOfCacheableParameters ==
    \A p, r \in Keyed :
        /\ (/\ calls[p].rev = calls[r].rev
            /\ calls[p].limit = calls[r].limit
            /\ calls[p].opt.merges = calls[r].opt.merges
            /\ calls[p].opt.ordering = calls[r].opt.ordering)
              => calls[p].key = calls[r].key
        /\ (calls[p].rev # calls[r].rev \/ calls[p].limit # calls[r].limit)
              => calls[p].key # calls[r].key

\* two requests with different all and renames flags got the same key, with
\* a merges option
C26_Witness ==
    /\ Keyed = Callers
    /\ calls[1].opt.all /\ ~calls[2].opt.all
    /\ ~calls[1].opt.renames /\ calls[2].opt.renames
    /\ calls[1].opt.merges = 1
    /\ calls[1].rev = 2
    /\ calls[1].key = calls[2].key

\* C27: in every commit built, the display name of the author (of the
\* committer) is 'You' exactly when a viewer is known and is the raw name,
\* and the raw name otherwise; the viewer is the remote's, or the session's
\* label when the remote names none (searchCommits: the session's label).
C27_YouOnlyForViewer ==
    lastOp.op = "identity" =>
        LET in == lastOp.page[1]
            known == IF lastOp.kind # "searchCommits" /\ in.viewer # NoName
                     THEN in.viewer ELSE in.label
        IN /\ ret.author = "You" <=> (known # NoName /\ in.author = known)
           /\ ret.author # "You" => ret.author = in.author
           /\ ret.committer = "You" <=> (known # NoName /\ in.committer = known)
           /\ ret.committer # "You" => ret.committer = in.committer

\* the session's label stood in for the viewer and matched the author only
C27_Witness ==
    /\ lastOp.op = "identity"
    /\ lastOp.kind = "getLogForPath"
    /\ lastOp.page[1].viewer = NoName
    /\ lastOp.page[1].label = "ann"
    /\ lastOp.page[1].author = "ann"
    /\ lastOp.page[1].committer = "bob"
    /\ ret.author = "You"
    /\ ret.committer = "bob"

(***************************************************************************)
(* Properties of a chain of continuations.                                 *)
(***************************************************************************)
\* the Log has no more data and no continuation
ChainEnded == lg.isLog /\ ~lg.hasMore /\ MoreOf(lg) = "none"

\* C28: over a finite history whose last page reports no more data, calling
\* more(n) with a number again and again on the latest Log leads, every call
\* answering, to a Log with hasMore false and no continuation.
C28_PagingTerminates == (lg.isLog /\ lg.hasMore) ~> ChainEnded

\* a chain ended by the remote's last page after two continuations
C28_Witness ==
    /\ ChainEnded
    /\ lastOp.op = "more"
    /\ lastOp.outcome = "page"
    /\ Len(sent) = 3

\* C29: every request of a chain is sent for the same revision, the one
\* resolved for the first page (the revision asked for, or the head at that
\* time), and every Log of the chain has it for sha.
C29_OneRevisionPerChain ==
    /\ \A i \in 1..Len(sent) : sent[i].rev = sent[1].rev
    /\ (lg.isLog /\ sent # <<>>) => lg.sha = sent[1].rev
    /\ (lg.isLog /\ lastOp.op = "query" /\ lastOp.rev # NoRev) => lg.sha = lastOp.rev
    /\ (lg.isLog /\ lastOp.op = "query" /\ lastOp.rev = NoRev) => lg.sha \in Heads

\* a chain for a revision that is not the present head (the revision asked
\* for, or the head when the chain began): its second page is requested for
\* it too
C29_Witness ==
    /\ lg.isLog
    /\ lastOp.op = "more"
    /\ lastOp.outcome = "page"
    /\ Len(sent) = 2
    /\ sent[1].rev # HeadRevision
    /\ sent[2].rev = sent[1].rev
    /\ lg.sha = sent[1].rev

\* the history the remote serves from a revision
HistoryFrom(rev) == SubSeq(History, IndexOf(History, rev), Len(History))

IsPrefix(a, b) == Len(a) <= Len(b) /\ SubSeq(b, 1, Len(a)) = a

\* C30: the remote serving every page of a chain, the Log at the end of the
\* chain (hasMore false) holds exactly the commits of the history, each
\* once, in the remote's order, and the commits of every Log of the chain
\* are a prefix of those of the next.
C30_ChainComplete ==
    /\ (ChainEnded /\ lastOp.outcome = "page") => Shas(lg.commits) = HistoryFrom(lg.sha)
    /\ (lg.isLog /\ lastOp.op = "more") =>
          IsPrefix(Shas(objs.prior.commits), Shas(lg.commits))

\* the whole history gathered by a folder's chain of three pages
C30_Witness ==
    /\ ChainEnded
    /\ lastOp.op = "more"
    /\ lastOp.kind = "getLogForPath"
    /\ lastOp.outcome = "page"
    /\ Len(sent) = 3
    /\ Shas(lg.commits) = History

(***************************************************************************)
(* Properties of the merge of a page, of the reconstruction from the       *)
(* whole-file entry and of the cache under continuations and failures.     *)
(***************************************************************************)
\* the record the page's Log holds for an id: the first of the raw page
PageRecord(page, sha) ==
    GitCommit(page[CHOOSE j \in 1..Len(page) :
                      /\ page[j].oid = sha
                      /\ \A i \in 1..(j - 1) : page[i].oid # sha])

\* C31: when a more call merges a page with an id the prior Log holds, the
\* merged Log has the id where the prior Log has it, with the record of the
\* page and not the prior Log's; the other ids of the prior Log keep their
\* record, and the prior Log's own commits are left as they were.
C31_MergeTakesPageRecord ==
    (lastOp.op = "more" /\ lastOp.outcome = "page") =>
        /\ \A i \in 1..Len(lastOp.prior.commits) :
              LET c == lastOp.prior.commits[i]
              IN /\ lg.commits[i].sha = c.sha
                 /\ lg.commits[i] =
                       (IF \E j \in 1..Len(lastOp.page) : lastOp.page[j].oid = c.sha
                        THEN PageRecord(lastOp.page, c.sha) ELSE c)
        /\ objs.prior.commits = lastOp.prior.commits

\* the page brought another record of an id the prior Log holds
C31_Witness ==
    /\ lastOp.op = "more"
    /\ lastOp.outcome = "page"
    /\ \E i \in 1..Len(lastOp.prior.commits) :
          /\ \E j \in 1..Len(lastOp.page) : lastOp.page[j].oid = lastOp.prior.commits[i].sha
          /\ lg.commits[i].sha = lastOp.prior.commits[i].sha
          /\ lg.commits[i].ver # lastOp.prior.commits[i].ver
          /\ objs.prior.commits[i] = lastOp.prior.commits[i]

\* C32: a Log rebuilt from the cached whole-file log has hasMore false and
\* no continuation, also when the limit cut it short of the commits that
\* follow in the whole-file log, and its sha and endingCursor are the
\* whole-file log's.
C32_RebuiltLogIsFinal ==
    \A p \in Callers :
        calls[p].how = "rebuilt"
            => LET whole == futures[calls[p].whole].val
               IN /\ ~calls[p].out.hasMore
                  /\ MoreOf(calls[p].out) = "none"
                  /\ calls[p].out.sha = whole.sha
                  /\ calls[p].out.endingCursor = whole.endingCursor

\* a rebuilt Log cut by the limit, for a revision that is not the
\* whole-file log's sha
C32_Witness ==
    \E p \in Callers :
        /\ calls[p].how = "rebuilt"
        /\ Len(calls[p].out.commits) = calls[p].limit
        /\ Len(WholeCommits(p)) >
              IndexOf(Shas(WholeCommits(p)), calls[p].rev) + calls[p].limit - 1
        /\ calls[p].out.sha # calls[p].rev
        /\ ~calls[p].out.hasMore

\* C33: a reconstruction leaves the cache as it is: the step stores nothing
\* and changes no future, the rebuilt Log is not under the requested key and
\* the whole-file entry is still there, and the same request made again is
\* rebuilt from the same whole-file entry with the same commits.
C33_RebuildLeavesCache ==
    /\ [][\A p \in Callers :
            (calls[p].how # "rebuilt" /\ calls'[p].how = "rebuilt")
                => /\ docState' = docState
                   /\ futures' = futures]_vars
    /\ [](\A p \in Callers :
            calls[p].how = "rebuilt"
                => /\ docState.present
                   /\ calls[p].key \notin DOMAIN docState.logs
                   /\ WholeFileKey(FALSE) \in DOMAIN docState.logs
                   /\ docState.logs[WholeFileKey(FALSE)].item = calls[p].whole
                   /\ \A q \in Callers :
                        (calls[q].pc = "done" /\ calls[q].key = calls[p].key)
                            => /\ calls[q].how = "rebuilt"
                               /\ calls[q].whole = calls[p].whole
                               /\ calls[q].out.commits = calls[p].out.commits)

\* the same request was rebuilt twice, the second after the first had
\* returned
C33_Witness ==
    \E p \in Callers : \E q \in Callers \ {p} :
        /\ calls[p].how = "rebuilt"
        /\ calls[q].how = "rebuilt"
        /\ calls[q].key = calls[p].key
        /\ calls[q].conc = {}
        /\ calls[p].conc = {}
        /\ calls[q].out.commits = calls[p].out.commits
        /\ Len(calls[q].out.commits) >= 1

\* C34: a more call on a path-scoped Log leaves every entry of the cache,
\* and the future it holds, as they are: the entry that answered the
\* original query still answers it.  What the call may add is an entry for
\* the page it fetched, under a key of the Log's revision, never the merged
\* Log.
C34_MoreLeavesEntries ==
    [][(lastOp'.op = "more" /\ lastOp'.kind = "getLogForPath" /\ lastOp' # lastOp) =>
          /\ docState.present => docState'.present
          /\ \A k \in DOMAIN docState.logs :
                /\ k \in DOMAIN docState'.logs
                /\ docState'.logs[k] = docState.logs[k]
          /\ \A f \in 1..Len(futures) : f <= Len(futures') /\ futures'[f] = futures[f]
          /\ \A k \in DOMAIN docState'.logs \ DOMAIN docState.logs :
                /\ Len(k) >= 2
                /\ k[2] = Token("rev", lg.sha)
                /\ futures'[docState'.logs[k].item].val = objs'.page]_vars

\* a Log answered from the cache was continued twice; the entry that
\* answered still holds its first page
C34_Witness ==
    /\ lastOp.op = "more"
    /\ lastOp.kind = "getLogForPath"
    /\ lastOp.target = "file"
    /\ lastOp.outcome = "page"
    /\ lastOp.prior.limit # NoLimit
    /\ HasLog(WholeFileKey(FALSE))
    /\ futures[docState.logs[WholeFileKey(FALSE)].item].val.hasMore
    /\ futures[docState.logs[WholeFileKey(FALSE)].item].val # lg

\* C35: when the failure handler of a fetch writes the empty result under
\* the fetch's key, the entry it overwrites, if there is one, is the pending
\* future of that fetch, never the future of another fetch for the key.
C35_FailureReplacesOwnEntry ==
    [][\A f \in 1..Len(futures) :
          (/\ futures[f].st # "done"
           /\ futures'[f].st = "done"
           /\ futures'[f].failed
           /\ futures[f].key # NoKey
           /\ docState' # docState
           /\ HasLog(futures[f].key))
              => docState.logs[futures[f].key].item = f]_vars

\* C36: every getCommits request sent for a call that carries an authors
\* option carries that authors filter.
C36_AuthorsReachRemote ==
    \A f \in 1..Len(futures) :
        (futures[f].req.api = "getCommits" /\ futures[f].opt.authors # 0)
            => /\ "authors" \in DOMAIN futures[f].req
               /\ futures[f].req.authors = futures[f].opt.authors

(***************************************************************************)
(* Properties of ContributorNode.                                          *)
(***************************************************************************)
\* loadMore does nothing in this step: no request, the node's log, limit
\* and notifications as they were, and loadMore is over
LoadMoreIsNoOp ==
    /\ node'.load.pc = "idle"
    /\ sent' = sent
    /\ node'.log = node.log
    /\ node'.logId = node.logId
    /\ node'.limit = node.limit
    /\ node'.changes = node.changes

\* loadMore, given by getLog a log that is absent or has no more data, or
\* given by more the very Log the node holds, does nothing
NoMoreIsNoOp ==
    /\ (/\ node.load.pc = "got"
        /\ node'.load # node.load
        /\ (~node.load.log.isLog \/ ~node.load.log.hasMore))
          => LoadMoreIsNoOp
    /\ (/\ node.load.pc = "more"
        /\ node'.load # node.load
        /\ node.load.until # 0
        /\ MapHas(node.load.log.commits, node.load.until)
        /\ node.logId = node.load.logId)
          => LoadMoreIsNoOp

\* C37 as claimed: loadMore called while the node holds no log, or a log
\* with hasMore false, requests no page and leaves the node as it is; so
\* does a loadMore whose more call returns the Log the node holds.
C37_NoOpWhenNothingMore ==
    [][/\ NoMoreIsNoOp
       /\ (/\ node.load.pc = "idle"
           /\ node'.load.pc # "idle"
           /\ (~node.log.isLog \/ ~node.log.hasMore))
             => sent' = sent]_vars

\* C37 amended: the log is the one getLog gives loadMore, after its lazy
\* query when the node held none: if that log is absent or has hasMore
\* false, loadMore calls no continuation, leaves the node's log and limit as
\* getLog left them and triggers no change; so does a loadMore whose more
\* call returns the Log the node holds.
C37_NoOpAfterGetLog == [][NoMoreIsNoOp]_vars

\* more returned the Log the node holds (it held the until boundary):
\* nothing was replaced and no change triggered
C37_Witness ==
    /\ node.did = "same"
    /\ node.load.pc = "idle"
    /\ node.log.isLog
    /\ node.log.hasMore
    /\ node.changes = 0
    /\ Len(sent) = 1

\* C38: after a loadMore that replaces the node's log, the node's limit is
\* the count of the log it holds, and it holds a log if the one replaced had
\* more data.
C38_LimitIsCount ==
    [][(node.load.pc = "more" /\ node'.load.pc = "idle" /\ node'.logId # node.logId) =>
          /\ node'.limit = (IF node'.log.isLog THEN node'.log.count ELSE NoLimit)
          /\ (node.log.isLog /\ node.log.hasMore) => node'.log.isLog
          /\ (node.load.log.isLog /\ node.load.log.hasMore) => node'.log.isLog]_vars

\* loadMore replaced a log of one commit by a merged log of two
C38_Witness ==
    /\ node.did = "replaced"
    /\ node.load.pc = "idle"
    /\ node.log.isLog
    /\ node.log.count = 2
    /\ node.limit = 2
    /\ node.log.limit # node.log.count
    /\ node.changes = 1

\* C39: a log the node holds comes from a query issued after the last
\* refresh(true), whatever getLog or loadMore was in flight at the reset;
\* and a getLog called while the node holds a log queries nothing.
C39_ResetIsEffective ==
    /\ [](node.log.isLog => node.logGen = node.resets)
    /\ [][\A proc \in {"get", "load"} :
            (node[proc].pc = "idle" /\ node'[proc].pc # "idle" /\ node.log.isLog)
                => sent' = sent]_vars

=============================================================================
